---------------------------- MODULE Spec2Model ----------------------------
(***************************************************************************)
(* Distributed sparse matrix-vector product y = A*x (sem1/distributed/lab1)*)
(* modelled as one process per MPI rank.  Vectors of the program are       *)
(* sequences (index i of the code is position i+1 here); doubles are       *)
(* modelled by integers.                                                   *)
(***************************************************************************)
EXTENDS Integers, Sequences, FiniteSets, TLC

(***************************************************************************)
(* Bounds of the model.                                                    *)
(***************************************************************************)
MaxWorkers == 3
MaxRows == 2
MaxEntries == 2
MaxPartRows == 10
MaxPartWorkers == 5
MaxListLen == 3
MaxVectorLen == 2
MaxPrices == 3
MaxWindow == 3
MaxThreads == 2

(***************************************************************************)
(* Helpers over sequences.                                                 *)
(***************************************************************************)
Min(a, b) == IF a < b THEN a ELSE b

Max(a, b) == IF a > b THEN a ELSE b

Abs(v) == IF v < 0 THEN -v ELSE v

RECURSIVE SumSeq(_)
SumSeq(s) == IF s = <<>> THEN 0 ELSE Head(s) + SumSeq(Tail(s))

RECURSIVE Concat(_)
Concat(ss) == IF ss = <<>> THEN <<>> ELSE Head(ss) \o Concat(Tail(ss))

Zeros(n) == [i \in 1..n |-> 0]

\* CoordinateEntry {row, column, value}
CoordinateEntry(r, c, v) == [row |-> r, column |-> c, value |-> v]

(***************************************************************************)
(* Partitioner.                                                            *)
(***************************************************************************)
\* Mutant: the final boundary is never assigned and keeps its initial 0.
calculateRowDistribution_NoFinalBoundary(totalNumberOfRows, mpiSize) ==
    LET baseRowsPerProcess == totalNumberOfRows \div mpiSize
        remainingRows == totalNumberOfRows % mpiSize
    IN  [k \in 1..(mpiSize + 1) |->
            IF k = mpiSize + 1
            THEN 0
            ELSE (k - 1) * baseRowsPerProcess + Min(k - 1, remainingRows)]

\* Mutant: the extra rows go to the last workers instead of the first.
calculateRowDistribution_ExtraRowsLast(totalNumberOfRows, mpiSize) ==
    LET baseRowsPerProcess == totalNumberOfRows \div mpiSize
        remainingRows == totalNumberOfRows % mpiSize
    IN  [k \in 1..(mpiSize + 1) |->
            IF k = mpiSize + 1
            THEN totalNumberOfRows
            ELSE (k - 1) * baseRowsPerProcess
                 + Max(0, (k - 1) - (mpiSize - remainingRows))]

\* vector<int> rowStartIndices(mpiSize + 1, 0); the loop fills 0..mpiSize-1,
\* the last element is assigned totalNumberOfRows.
calculateRowDistribution(totalNumberOfRows, mpiSize) ==
    LET baseRowsPerProcess == totalNumberOfRows \div mpiSize
        remainingRows == totalNumberOfRows % mpiSize
    IN  [k \in 1..(mpiSize + 1) |->
            IF k = mpiSize + 1
            THEN totalNumberOfRows
            ELSE (k - 1) * baseRowsPerProcess + Min(k - 1, remainingRows)]

\* std::upper_bound over [first, first+len): the 0-based index of the first
\* element greater than val, by bisection.
RECURSIVE upper_bound(_, _, _, _)
upper_bound(s, first, len, val) ==
    IF len <= 0 THEN first
    ELSE LET half == len \div 2
             middle == first + half
         IN  IF val < s[middle + 1]
             THEN upper_bound(s, first, half, val)
             ELSE upper_bound(s, middle + 1, len - half - 1, val)

\* Mutant: the owner is searched with the row below (lower_bound in place of
\* upper_bound): a row on a boundary goes to the previous worker.
findOwnerProcess_LowerBound(rowIndex, rowDistribution, mpiSize) ==
    LET ownerRank == upper_bound(rowDistribution, 0, Len(rowDistribution), rowIndex - 1) - 1
    IN  Max(0, Min(ownerRank, mpiSize - 1))

\* Mutant: the search result is not decremented: a row goes to the worker
\* after its owner.
findOwnerProcess_NextWorker(rowIndex, rowDistribution, mpiSize) ==
    LET ownerRank == upper_bound(rowDistribution, 0, Len(rowDistribution), rowIndex)
    IN  Max(0, Min(ownerRank, mpiSize - 1))

\* Mutant: the result of the search is returned without being clamped.
findOwnerProcess_Unclamped(rowIndex, rowDistribution, mpiSize) ==
    upper_bound(rowDistribution, 0, Len(rowDistribution), rowIndex) - 1

findOwnerProcess(rowIndex, rowDistribution, mpiSize) ==
    LET ownerRank == upper_bound(rowDistribution, 0, Len(rowDistribution), rowIndex) - 1
    IN  Max(0, Min(ownerRank, mpiSize - 1))

\* Mutant: the root files only the entries whose row is below the last
\* boundary; the others are put in no bucket.
entriesPerProcess_DropsBeyond(allEntries, rowDistribution, mpiSize) ==
    [k \in 1..mpiSize |->
        SelectSeq(allEntries,
                  LAMBDA e : /\ e.row < rowDistribution[mpiSize + 1]
                             /\ findOwnerProcess(e.row, rowDistribution, mpiSize) = k - 1)]

\* The root's classification loop: entriesPerProcess[owner].push_back(entry).
entriesPerProcess(allEntries, rowDistribution, mpiSize) ==
    [k \in 1..mpiSize |->
        SelectSeq(allEntries,
                  LAMBDA e : findOwnerProcess(e.row, rowDistribution, mpiSize) = k - 1)]

(***************************************************************************)
(* Format converter (windowed variant).                                    *)
(***************************************************************************)
\* The comparator of the sort: row, then column.
EntryLess(a, b) == IF a.row # b.row THEN a.row < b.row ELSE a.column < b.column

IsSorted(s) == \A i \in 1..(Len(s) - 1) : ~EntryLess(s[i + 1], s[i])

\* std::sort leaves the relative order of equivalent entries unspecified: every
\* sorted arrangement of the list is a possible outcome.
SortOutcomes(entries) ==
    {s \in {[i \in 1..Len(entries) |-> entries[p[i]]] : p \in Permutations(1..Len(entries))} :
        IsSorted(s)}

\* The sort sees the entries through the comparator only: what it does to a
\* list is a permutation of its positions that depends on the (row, column)
\* keys alone.  The list after the sort applies permutation p.
Permuted(entries, p) == [i \in 1..Len(entries) |-> entries[p[i]]]

Keys(entries) == [i \in 1..Len(entries) |-> <<entries[i].row, entries[i].column>>]

SortingPermutations(entries) ==
    {p \in Permutations(1..Len(entries)) : IsSorted(Permuted(entries, p))}

\* while (row == localRow && column == currentColumn) accumulatedValue += value
RECURSIVE AccumulateDuplicates(_, _, _, _, _, _)
AccumulateDuplicates(e, entryIndex, localRowStart, localRow, currentColumn, acc) ==
    IF entryIndex <= Len(e)
       /\ e[entryIndex].row - localRowStart = localRow
       /\ e[entryIndex].column = currentColumn
    THEN AccumulateDuplicates(e, entryIndex + 1, localRowStart, localRow,
                              currentColumn, acc + e[entryIndex].value)
    ELSE [entryIndex |-> entryIndex, accumulatedValue |-> acc]

\* The outer loop and the per-row loop of convertCOOtoCSRLocal; st holds the
\* row counts, columnIndices and values built so far.  inRow is TRUE inside
\* the per-row loop for localRow.
RECURSIVE ScanEntries(_, _, _, _, _, _, _)
ScanEntries(e, entryIndex, localRowStart, localNumberOfRows, inRow, localRow, st) ==
    IF entryIndex > Len(e) THEN st
    ELSE IF inRow
    THEN IF e[entryIndex].row - localRowStart = localRow
         THEN LET d == AccumulateDuplicates(e, entryIndex + 1, localRowStart, localRow,
                                            e[entryIndex].column, e[entryIndex].value)
              IN  ScanEntries(e, d.entryIndex, localRowStart, localNumberOfRows,
                              TRUE, localRow,
                              [rowPointers |-> [st.rowPointers EXCEPT ![localRow + 2] = @ + 1],
                               columnIndices |-> Append(st.columnIndices, e[entryIndex].column),
                               values |-> Append(st.values, d.accumulatedValue)])
         ELSE ScanEntries(e, entryIndex, localRowStart, localNumberOfRows, FALSE, 0, st)
    ELSE LET r == e[entryIndex].row - localRowStart
         IN  IF r < 0 \/ r >= localNumberOfRows
             THEN ScanEntries(e, entryIndex + 1, localRowStart, localNumberOfRows,
                              FALSE, 0, st)
             ELSE ScanEntries(e, entryIndex, localRowStart, localNumberOfRows,
                              TRUE, r, st)

\* for (rowIndex = 1; rowIndex <= n; ++rowIndex) p[rowIndex] += p[rowIndex - 1]
RECURSIVE PrefixSums(_, _)
PrefixSums(p, k) ==
    IF k > Len(p) THEN p
    ELSE PrefixSums([p EXCEPT ![k] = p[k] + p[k - 1]], k + 1)

\* Mutant: the window start is ignored: rows are not renumbered and the rows
\* below the window are kept.
convertCOOtoCSRLocal_IgnoresRowStart(globalNumberOfColumns, sortedEntries, localRowStart, localRowEnd) ==
    LET localNumberOfRows == localRowEnd - localRowStart
        st == ScanEntries(sortedEntries, 1, 0, localNumberOfRows, FALSE, 0,
                          [rowPointers |-> Zeros(localNumberOfRows + 1),
                           columnIndices |-> <<>>,
                           values |-> <<>>])
    IN  [numberOfRows |-> localNumberOfRows,
         numberOfColumns |-> globalNumberOfColumns,
         rowPointers |-> PrefixSums(st.rowPointers, 2),
         columnIndices |-> st.columnIndices,
         values |-> st.values]

\* convertCOOtoCSRLocal applied to the list as the sort left it.
convertCOOtoCSRLocal(globalNumberOfColumns, sortedEntries, localRowStart, localRowEnd) ==
    LET localNumberOfRows == localRowEnd - localRowStart
    IN  IF sortedEntries = <<>>
        THEN [numberOfRows |-> localNumberOfRows,
              numberOfColumns |-> globalNumberOfColumns,
              rowPointers |-> Zeros(localNumberOfRows + 1),
              columnIndices |-> <<>>,
              values |-> <<>>]
        ELSE LET st == ScanEntries(sortedEntries, 1, localRowStart, localNumberOfRows,
                                   FALSE, 0,
                                   [rowPointers |-> Zeros(localNumberOfRows + 1),
                                    columnIndices |-> <<>>,
                                    values |-> <<>>])
             IN  [numberOfRows |-> localNumberOfRows,
                  numberOfColumns |-> globalNumberOfColumns,
                  rowPointers |-> PrefixSums(st.rowPointers, 2),
                  columnIndices |-> st.columnIndices,
                  values |-> st.values]

(***************************************************************************)
(* Format converter (global variant).                                      *)
(***************************************************************************)
\* The two nested loops of convertCOOtoCSR, one (row, column) group per step.
\* rowPointers has numberOfRows + 1 elements: rowPointers[currentRow + 1]++
\* with currentRow >= numberOfRows writes past its end, which is undefined
\* behaviour.  landing says where that increment lands: 0 for memory that is
\* not read again, k > 0 for element k of columnIndices (a neighbouring heap
\* block) when it exists.
RECURSIVE ScanAllRows(_, _, _, _, _)
ScanAllRows(e, entryIndex, numberOfRows, landing, st) ==
    IF entryIndex > Len(e) THEN st
    ELSE LET currentRow == e[entryIndex].row
             d == AccumulateDuplicates(e, entryIndex + 1, 0, currentRow,
                                       e[entryIndex].column, e[entryIndex].value)
             columnIndices == Append(st.columnIndices, e[entryIndex].column)
             values == Append(st.values, d.accumulatedValue)
         IN  ScanAllRows(e, d.entryIndex, numberOfRows, landing,
                 IF currentRow + 1 <= numberOfRows
                 THEN [rowPointers |-> [st.rowPointers EXCEPT ![currentRow + 2] = @ + 1],
                       columnIndices |-> columnIndices,
                       values |-> values]
                 ELSE [rowPointers |-> st.rowPointers,
                       columnIndices |->
                           IF landing \in 1..Len(columnIndices)
                           THEN [columnIndices EXCEPT ![landing] = @ + 1]
                           ELSE columnIndices,
                       values |-> values])

\* Some increment of the scan is past the end of rowPointers.
writesPastRowPointers(numberOfRows, coordinateEntries) ==
    \E k \in 1..Len(coordinateEntries) : coordinateEntries[k].row >= numberOfRows

\* Mutant: the early return for an empty list leaves rowPointers unassigned.
convertCOOtoCSR_EmptyNoRowPointers(numberOfRows, numberOfColumns, sortedEntries, landing) ==
    LET st == ScanAllRows(sortedEntries, 1, numberOfRows, landing,
                          [rowPointers |-> Zeros(numberOfRows + 1),
                           columnIndices |-> <<>>,
                           values |-> <<>>])
    IN  [numberOfRows |-> numberOfRows,
         numberOfColumns |-> numberOfColumns,
         rowPointers |-> IF sortedEntries = <<>> THEN <<>>
                         ELSE PrefixSums(st.rowPointers, 2),
         columnIndices |-> st.columnIndices,
         values |-> st.values]

\* convertCOOtoCSR applied to the list as the sort left it.
convertCOOtoCSR(numberOfRows, numberOfColumns, sortedEntries, landing) ==
    IF sortedEntries = <<>>
    THEN [numberOfRows |-> numberOfRows,
          numberOfColumns |-> numberOfColumns,
          rowPointers |-> Zeros(numberOfRows + 1),
          columnIndices |-> <<>>,
          values |-> <<>>]
    ELSE LET st == ScanAllRows(sortedEntries, 1, numberOfRows, landing,
                               [rowPointers |-> Zeros(numberOfRows + 1),
                                columnIndices |-> <<>>,
                                values |-> <<>>])
         IN  [numberOfRows |-> numberOfRows,
              numberOfColumns |-> numberOfColumns,
              rowPointers |-> PrefixSums(st.rowPointers, 2),
              columnIndices |-> st.columnIndices,
              values |-> st.values]

(***************************************************************************)
(* Local multiply engine.                                                  *)
(***************************************************************************)
\* Mutant: the row's products are assigned, not accumulated.
rowDotProduct_Assign(localMatrix, globalVector, entryIndex, rowEnd) ==
    IF entryIndex >= rowEnd THEN 0
    ELSE LET columnIndex == localMatrix.columnIndices[rowEnd]
             matrixValue == localMatrix.values[rowEnd]
         IN  IF columnIndex >= 0 /\ columnIndex < Len(globalVector)
             THEN matrixValue * globalVector[columnIndex + 1]
             ELSE 0

\* Mutant: a column index past the end reads the last element of the vector
\* instead of being skipped.
RECURSIVE rowDotProduct_ClampsColumn(_, _, _, _)
rowDotProduct_ClampsColumn(localMatrix, globalVector, entryIndex, rowEnd) ==
    IF entryIndex >= rowEnd THEN 0
    ELSE LET columnIndex == localMatrix.columnIndices[entryIndex + 1]
             matrixValue == localMatrix.values[entryIndex + 1]
         IN  (IF columnIndex >= 0 /\ Len(globalVector) > 0
              THEN matrixValue * globalVector[Min(columnIndex, Len(globalVector) - 1) + 1]
              ELSE 0)
             + rowDotProduct_ClampsColumn(localMatrix, globalVector, entryIndex + 1, rowEnd)

RECURSIVE rowDotProduct(_, _, _, _)
rowDotProduct(localMatrix, globalVector, entryIndex, rowEnd) ==
    IF entryIndex >= rowEnd THEN 0
    ELSE LET columnIndex == localMatrix.columnIndices[entryIndex + 1]
             matrixValue == localMatrix.values[entryIndex + 1]
         IN  (IF columnIndex >= 0 /\ columnIndex < Len(globalVector)
              THEN matrixValue * globalVector[columnIndex + 1]
              ELSE 0)
             + rowDotProduct(localMatrix, globalVector, entryIndex + 1, rowEnd)

multiply(localMatrix, globalVector) ==
    [localRowIndex \in 1..localMatrix.numberOfRows |->
        rowDotProduct(localMatrix, globalVector,
                      localMatrix.rowPointers[localRowIndex],
                      localMatrix.rowPointers[localRowIndex + 1])]

\* The indices at which multiply reads globalVector: the column indices of
\* the stored entries that pass (columnIndex >= 0 && columnIndex < size).
vectorReads(localMatrix, globalVector) ==
    UNION {{localMatrix.columnIndices[entryIndex + 1] :
               entryIndex \in {i \in localMatrix.rowPointers[localRowIndex]
                                     ..(localMatrix.rowPointers[localRowIndex + 1] - 1) :
                                  /\ localMatrix.columnIndices[i + 1] >= 0
                                  /\ localMatrix.columnIndices[i + 1] < Len(globalVector)}} :
           localRowIndex \in 1..localMatrix.numberOfRows}

(***************************************************************************)
(* Result collector.                                                       *)
(***************************************************************************)
\* Mutant: totalSize is advanced before the displacement is stored.
displacements_Inclusive(allSizes) ==
    [k \in 1..Len(allSizes) |-> SumSeq(SubSeq(allSizes, 1, k))]

\* displacements[processRank] = totalSize; totalSize += allSizes[processRank]
displacements(allSizes) ==
    [k \in 1..Len(allSizes) |-> SumSeq(SubSeq(allSizes, 1, k - 1))]

\* MPI_Gatherv on the root: segment k of allSizes[k] elements lands at
\* displacements[k] of a buffer of totalSize elements (initially 0.0).
Gatherv(segments, allSizes, displs, totalSize) ==
    [i \in 1..totalSize |->
        LET hit == {k \in 1..Len(segments) :
                       /\ displs[k] < i
                       /\ i <= displs[k] + allSizes[k]}
        IN  IF hit = {} THEN 0
            ELSE LET k == CHOOSE k \in hit : \A j \in hit : j <= k
                 IN  segments[k][i - displs[k]]]

(***************************************************************************)
(* Matrix Market writer.                                                   *)
(***************************************************************************)
\* The data lines of the written file: (index + 1, 1, value) for every
\* element with fabs(value) > zeroTolerance.
\* Mutant: an element whose magnitude equals the tolerance is written too.
RECURSIVE nonZeroEntries_Inclusive(_, _, _)
nonZeroEntries_Inclusive(vectorData, i, zeroTolerance) ==
    IF i > Len(vectorData) THEN <<>>
    ELSE (IF Abs(vectorData[i]) >= zeroTolerance
          THEN << <<i - 1, vectorData[i]>> >>
          ELSE <<>>)
         \o nonZeroEntries_Inclusive(vectorData, i + 1, zeroTolerance)

RECURSIVE nonZeroEntries(_, _, _)
nonZeroEntries(vectorData, i, zeroTolerance) ==
    IF i > Len(vectorData) THEN <<>>
    ELSE (IF Abs(vectorData[i]) > zeroTolerance
          THEN << <<i - 1, vectorData[i]>> >>
          ELSE <<>>)
         \o nonZeroEntries(vectorData, i + 1, zeroTolerance)

writeVector(vectorData, zeroTolerance) ==
    LET nz == nonZeroEntries(vectorData, 1, zeroTolerance)
    IN  [size |-> Len(vectorData),
         count |-> Len(nz),
         lines |-> [k \in 1..Len(nz) |-> <<nz[k][1] + 1, 1, nz[k][2]>>]]

(***************************************************************************)
(* Matrix Market reader.  A header line is the sequence of its tokens; a   *)
(* later line says whether it starts with '%' and gives the numbers it     *)
(* starts with (extraction stops at the first token that is not a number). *)
(***************************************************************************)
Line(comment, tokens) == [comment |-> comment, tokens |-> tokens]

\* Mutant: hermitian is not taken as symmetric.
parseHeaderLine_SymmetricOnly(headerLine) ==
    IF Len(headerLine) >= 5 /\ headerLine[1] = "%%MatrixMarket"
    THEN [isCoordinateFormat |-> headerLine[3] = "coordinate",
          isPatternMatrix |-> headerLine[4] = "pattern",
          isRealMatrix |-> headerLine[4] \in {"real", "integer"},
          isSymmetricMatrix |-> headerLine[5] = "symmetric"]
    ELSE [isCoordinateFormat |-> FALSE, isPatternMatrix |-> FALSE,
          isRealMatrix |-> FALSE, isSymmetricMatrix |-> FALSE]

\* The four flags after parseHeaderLine (all false before the call).
parseHeaderLine(headerLine) ==
    IF Len(headerLine) >= 5 /\ headerLine[1] = "%%MatrixMarket"
    THEN [isCoordinateFormat |-> headerLine[3] = "coordinate",
          isPatternMatrix |-> headerLine[4] = "pattern",
          isRealMatrix |-> headerLine[4] \in {"real", "integer"},
          isSymmetricMatrix |-> headerLine[5] \in {"symmetric", "hermitian"}]
    ELSE [isCoordinateFormat |-> FALSE, isPatternMatrix |-> FALSE,
          isRealMatrix |-> FALSE, isSymmetricMatrix |-> FALSE]

\* Mutant: a line that is skipped counts as an entry read (++entryIndex is
\* reached by the skipped lines too).
RECURSIVE readCoordinateEntries_CountsSkipped(_, _, _, _, _, _, _)
readCoordinateEntries_CountsSkipped(lines, lineIndex, entryIndex, numberOfNonZeros, isPatternMatrix, isSymmetricMatrix, coordinateEntries) ==
    IF entryIndex >= numberOfNonZeros \/ lineIndex > Len(lines)
    THEN coordinateEntries
    ELSE LET currentLine == lines[lineIndex]
             accepted == /\ ~currentLine.comment
                         /\ Len(currentLine.tokens) >= (IF isPatternMatrix THEN 2 ELSE 3)
                         /\ currentLine.tokens[1] >= 1
                         /\ currentLine.tokens[2] >= 1
             entryValue == IF isPatternMatrix THEN 1 ELSE currentLine.tokens[3]
         IN  readCoordinateEntries_CountsSkipped(
                 lines, lineIndex + 1, entryIndex + 1, numberOfNonZeros,
                 isPatternMatrix, isSymmetricMatrix,
                 IF ~accepted THEN coordinateEntries
                 ELSE coordinateEntries
                          \o <<CoordinateEntry(currentLine.tokens[1] - 1,
                                               currentLine.tokens[2] - 1, entryValue)>>
                          \o (IF isSymmetricMatrix
                                 /\ currentLine.tokens[1] # currentLine.tokens[2]
                              THEN <<CoordinateEntry(currentLine.tokens[2] - 1,
                                                     currentLine.tokens[1] - 1, entryValue)>>
                              ELSE <<>>))

\* The loop of readCoordinateEntries: lineIndex is the next line getline
\* yields, entryIndex the number of lines accepted so far.
RECURSIVE readCoordinateEntries(_, _, _, _, _, _, _)
readCoordinateEntries(lines, lineIndex, entryIndex, numberOfNonZeros, isPatternMatrix, isSymmetricMatrix, coordinateEntries) ==
    IF entryIndex >= numberOfNonZeros \/ lineIndex > Len(lines)
    THEN coordinateEntries
    ELSE LET currentLine == lines[lineIndex]
             skipped == readCoordinateEntries(lines, lineIndex + 1, entryIndex,
                                              numberOfNonZeros, isPatternMatrix,
                                              isSymmetricMatrix, coordinateEntries)
         IN  IF currentLine.comment \/ currentLine.tokens = <<>>
             THEN skipped
             ELSE IF Len(currentLine.tokens) < (IF isPatternMatrix THEN 2 ELSE 3)
             THEN skipped
             ELSE LET zeroBasedRow == currentLine.tokens[1] - 1
                      zeroBasedColumn == currentLine.tokens[2] - 1
                      entryValue == IF isPatternMatrix THEN 1 ELSE currentLine.tokens[3]
                  IN  IF zeroBasedRow < 0 \/ zeroBasedColumn < 0
                      THEN skipped
                      ELSE readCoordinateEntries(
                               lines, lineIndex + 1, entryIndex + 1, numberOfNonZeros,
                               isPatternMatrix, isSymmetricMatrix,
                               coordinateEntries
                                   \o <<CoordinateEntry(zeroBasedRow, zeroBasedColumn,
                                                        entryValue)>>
                                   \o (IF isSymmetricMatrix /\ zeroBasedRow # zeroBasedColumn
                                       THEN <<CoordinateEntry(zeroBasedColumn, zeroBasedRow,
                                                              entryValue)>>
                                       ELSE <<>>))

\* The while loop of readMatrixMarketFile that looks for the dimension line:
\* the index of the first line from lineIndex on that is not empty, not a
\* comment and starts with three integers; 0 when getline fails first.
RECURSIVE findDimensionLine(_, _)
findDimensionLine(fileLines, lineIndex) ==
    IF lineIndex > Len(fileLines) THEN 0
    ELSE IF fileLines[lineIndex].comment \/ Len(fileLines[lineIndex].tokens) < 3
    THEN findDimensionLine(fileLines, lineIndex + 1)
    ELSE lineIndex

\* readMatrixMarketFile: opened says whether the ifstream is good, headerLines
\* is <<first line>> or <<>> for a file without any line; fileLines are the
\* lines after the first.  Without success the outputs keep the caller's
\* initial values.
readMatrixMarketFile(opened, headerLines, fileLines) ==
    LET failed == [success |-> FALSE, numberOfRows |-> 0, numberOfColumns |-> 0,
                   coordinateEntries |-> <<>>]
    IN  IF ~opened \/ headerLines = <<>> THEN failed
        ELSE LET flags == parseHeaderLine(headerLines[1])
                 dimensionLine == findDimensionLine(fileLines, 1)
             IN  IF dimensionLine = 0 THEN failed
                 ELSE [success |-> TRUE,
                       numberOfRows |-> fileLines[dimensionLine].tokens[1],
                       numberOfColumns |-> fileLines[dimensionLine].tokens[2],
                       coordinateEntries |->
                           readCoordinateEntries(
                               SubSeq(fileLines, dimensionLine + 1, Len(fileLines)), 1, 0,
                               fileLines[dimensionLine].tokens[3],
                               flags.isPatternMatrix, flags.isSymmetricMatrix, <<>>)]

(***************************************************************************)
(* Orchestrator helpers.                                                   *)
(***************************************************************************)
\* Mutant: the length is not compared with the matrix column count.
validateVectorDimensions_NoLengthCheck(vectorRows, vectorColumns, matrixColumns) ==
    vectorColumns = 1 \/ vectorRows = 1

validateVectorDimensions(vectorRows, vectorColumns, matrixColumns) ==
    IF vectorColumns = 1 THEN matrixColumns = vectorRows
    ELSE IF vectorRows = 1 THEN matrixColumns = vectorColumns
    ELSE FALSE

\* The root's part of prepareDenseVector: the dense vector with duplicates
\* accumulated.
RECURSIVE accumulateVector(_, _, _, _)
accumulateVector(denseVector, vectorEntries, vectorColumns, k) ==
    IF k > Len(vectorEntries) THEN denseVector
    ELSE LET index == IF vectorColumns = 1 THEN vectorEntries[k].row
                      ELSE vectorEntries[k].column
         IN  accumulateVector(
                 IF index >= 0 /\ index < Len(denseVector)
                 THEN [denseVector EXCEPT ![index + 1] = @ + vectorEntries[k].value]
                 ELSE denseVector,
                 vectorEntries, vectorColumns, k + 1)

\* Mutant: the index is always the entry's row.
buildDenseVector_RowIndexOnly(vectorRows, vectorColumns, vectorEntries) ==
    LET vectorLength == IF vectorColumns = 1 THEN vectorRows ELSE vectorColumns
    IN  accumulateVector(Zeros(vectorLength), vectorEntries, 1, 1)

\* Mutant: the length is always the declared row count, whatever the
\* orientation.
buildDenseVector_LengthFromRows(vectorRows, vectorColumns, vectorEntries) ==
    accumulateVector(Zeros(vectorRows), vectorEntries, vectorColumns, 1)

buildDenseVector(vectorRows, vectorColumns, vectorEntries) ==
    LET vectorLength == IF vectorColumns = 1 THEN vectorRows ELSE vectorColumns
    IN  accumulateVector(Zeros(vectorLength), vectorEntries, vectorColumns, 1)


(***************************************************************************)
(* Inputs: what MatrixMarketReader::readMatrixMarketFile yields for the    *)
(* matrix file and the vector file (readable = its return value), and the  *)
(* command line: argc, and the tolerance atof(argv[4]) yields when present.*)
(***************************************************************************)
\* The value of the k-th data line of a generated file: 1, -1, 2, -2, ...
EntryValue(k) == IF k % 2 = 1 THEN (k + 1) \div 2 ELSE -(k \div 2)

SeqsUpTo(S, n) == UNION {[1..m -> S] : m \in 0..n}

\* Coordinate lists of at most MaxEntries entries for a matrix of r declared
\* rows; a row index may be one past the last declared row, a column index is
\* 0 or 1.
EntryLists(r) ==
    {[k \in 1..Len(rc) |-> CoordinateEntry(rc[k][1], rc[k][2], EntryValue(k))] :
        rc \in SeqsUpTo((0..r) \X {0, 1}, MaxEntries)}

File(ok, r, c, e) == [readable |-> ok, rows |-> r, columns |-> c, entries |-> e]

ColumnVector12 ==
    File(TRUE, 2, 1, <<CoordinateEntry(0, 0, 1), CoordinateEntry(1, 0, 2)>>)

\* Matrices of every declared row count with two columns.
MatrixFamily ==
    UNION {{[matrix |-> File(TRUE, r, 2, e), vector |-> ColumnVector12, tolerance |-> 0,
             argc |-> 4] :
                e \in EntryLists(r)} : r \in 0..MaxRows}

Identity3 ==
    File(TRUE, 3, 3, <<CoordinateEntry(0, 0, 1), CoordinateEntry(1, 1, 1),
                       CoordinateEntry(2, 2, 1)>>)

Diagonal23 == File(TRUE, 2, 2, <<CoordinateEntry(0, 0, 2), CoordinateEntry(1, 1, 3)>>)

\* Identical entries, and a cell whose entries cancel.
Duplicates2 ==
    File(TRUE, 2, 2, <<CoordinateEntry(1, 1, 2), CoordinateEntry(0, 1, 1),
                       CoordinateEntry(1, 1, 2), CoordinateEntry(1, 0, 1),
                       CoordinateEntry(1, 1, -4)>>)

\* Vector files: column and row vectors, duplicates, an index outside the
\* declared length, a length that does not match, a non-vector, an empty one.
VectorFiles ==
    {ColumnVector12,
     File(TRUE, 1, 2, <<CoordinateEntry(0, 1, 2), CoordinateEntry(0, 0, 1),
                        CoordinateEntry(0, 1, 1)>>),
     File(TRUE, 2, 1, <<CoordinateEntry(1, 0, 1), CoordinateEntry(2, 0, 5),
                        CoordinateEntry(1, 0, 1)>>),
     File(TRUE, 2, 1, <<>>),
     File(TRUE, 3, 1, <<CoordinateEntry(0, 0, 1)>>),
     File(TRUE, 2, 2, <<CoordinateEntry(0, 0, 1)>>),
     File(FALSE, 0, 0, <<>>)}

VectorFamily ==
    {[matrix |-> m, vector |-> v, tolerance |-> t, argc |-> 5] :
        m \in {Diagonal23, Duplicates2}, v \in VectorFiles, t \in {0, 1}}

ExampleInputs ==
    {[matrix |-> Identity3,
      vector |-> File(TRUE, 3, 1, <<CoordinateEntry(0, 0, 1), CoordinateEntry(1, 0, 2),
                                    CoordinateEntry(2, 0, 3)>>),
      tolerance |-> 0, argc |-> 4],
     [matrix |-> Diagonal23,
      vector |-> File(TRUE, 2, 1, <<CoordinateEntry(0, 0, 1), CoordinateEntry(1, 0, 1)>>),
      tolerance |-> 0, argc |-> 4],
     [matrix |-> File(TRUE, 0, 0, <<>>), vector |-> File(TRUE, 1, 0, <<>>),
      tolerance |-> 0, argc |-> 4],
     [matrix |-> File(FALSE, 0, 0, <<>>), vector |-> ColumnVector12, tolerance |-> 0,
      argc |-> 4]}

\* Command lines with fewer than three positional arguments (argc counts the
\* program name).
UsageInputs ==
    {[matrix |-> Diagonal23, vector |-> ColumnVector12, tolerance |-> 0, argc |-> a] :
        a \in 1..3}

Inputs == MatrixFamily \cup VectorFamily \cup ExampleInputs \cup UsageInputs

(***************************************************************************)
(* State.                                                                  *)
(***************************************************************************)
VARIABLES
    mpiSize,            \* number of ranks (MPI_Comm_size)
    input,              \* the files and the tolerance of this run
    pc,                 \* pc[r]: where rank r is in run()
    validationStatus,   \* per rank, local of readAndValidateInputs
    matrixRows, matrixColumns, vectorRows, vectorColumns,   \* per rank, locals of run()
    matrixEntries, vectorEntries,                           \* per rank, locals of run()
    rowDistribution,    \* per rank
    localMatrixEntries, \* per rank
    localMatrix,        \* per rank, CompressedSparseRowMatrix
    denseVector,        \* per rank
    localResult,        \* per rank
    globalResult,       \* per rank, result of gatherResults
    exitStatus,         \* per rank, value returned by run(); -1 while running
    outputFile,         \* <<file>> once writeVector has written, <<>> before
    sendBuckets,        \* root: entriesPerProcess of distributeMatrixRows
    destinationRank,    \* root: destination of the send loop
    nextTag,            \* root: tag of the next MPI_Send to destinationRank
    entryCount, rows, columns,   \* per rank, locals of receiveCoordinateEntries
    chan,               \* chan[d]: point-to-point messages sent to d, not yet received
    bcastLog,           \* values the root has broadcast, in order
    bcastSeen,          \* per rank, number of broadcasts completed
    allSizes,           \* MPI_Gather: size contributed by each rank, -1 before
    segments,           \* MPI_Gatherv: segment contributed by each rank
    segmentSent,        \* per rank, whether it entered MPI_Gatherv
    sendLog,            \* per destination, the messages of the MPI_Send calls issued
    recvLog,            \* per rank, <<tag, count>> of each MPI_Recv completed
    scatterResult,      \* per rank, <<list>> once distributeMatrixRows returned it
    collectiveLog,      \* per rank, the collective calls it has issued, in order
    errorStream,        \* per rank, the messages it has written to cerr
    filesOpened,        \* the files opened so far: "matrix", "vector", "output"
    probe               \* argument and result of a function applied on its own

envVars == <<mpiSize, input, probe>>

ioVars == <<errorStream, filesOpened>>

dimVars == <<matrixRows, matrixColumns, vectorRows, vectorColumns>>

dataVars == <<matrixEntries, vectorEntries, rowDistribution, localMatrixEntries,
              localMatrix, denseVector, localResult, globalResult>>

scatterVars == <<sendBuckets, destinationRank, nextTag, entryCount, rows, columns,
                 chan, sendLog, recvLog, scatterResult>>

collectiveVars == <<bcastLog, bcastSeen, allSizes, segments, segmentSent, collectiveLog>>

vars == <<envVars, ioVars, pc, validationStatus, dimVars, dataVars, exitStatus,
          outputFile, scatterVars, collectiveVars>>

Ranks == 0..(mpiSize - 1)

EmptyCSR == [numberOfRows |-> 0, numberOfColumns |-> 0, rowPointers |-> <<>>,
             columnIndices |-> <<>>, values |-> <<>>]

\* The state of all ranks after construction, for a given run.
Start(size, in, at) ==
    /\ mpiSize = size
    /\ input = in
    /\ pc = [r \in Ranks |-> at]
    /\ validationStatus = [r \in Ranks |-> 1]
    /\ matrixRows = [r \in Ranks |-> 0]
    /\ matrixColumns = [r \in Ranks |-> 0]
    /\ vectorRows = [r \in Ranks |-> 0]
    /\ vectorColumns = [r \in Ranks |-> 0]
    /\ matrixEntries = [r \in Ranks |-> <<>>]
    /\ vectorEntries = [r \in Ranks |-> <<>>]
    /\ rowDistribution = [r \in Ranks |-> <<>>]
    /\ localMatrixEntries = [r \in Ranks |-> <<>>]
    /\ localMatrix = [r \in Ranks |-> EmptyCSR]
    /\ denseVector = [r \in Ranks |-> <<>>]
    /\ localResult = [r \in Ranks |-> <<>>]
    /\ globalResult = [r \in Ranks |-> <<>>]
    /\ exitStatus = [r \in Ranks |-> -1]
    /\ outputFile = <<>>
    /\ sendBuckets = <<>>
    /\ destinationRank = 0
    /\ nextTag = 0
    /\ entryCount = [r \in Ranks |-> 0]
    /\ rows = [r \in Ranks |-> <<>>]
    /\ columns = [r \in Ranks |-> <<>>]
    /\ chan = [r \in Ranks |-> <<>>]
    /\ bcastLog = <<>>
    /\ bcastSeen = [r \in Ranks |-> 0]
    /\ allSizes = [r \in Ranks |-> -1]
    /\ segments = [r \in Ranks |-> <<>>]
    /\ segmentSent = [r \in Ranks |-> FALSE]
    /\ sendLog = [r \in Ranks |-> <<>>]
    /\ recvLog = [r \in Ranks |-> <<>>]
    /\ scatterResult = [r \in Ranks |-> <<>>]
    /\ collectiveLog = [r \in Ranks |-> <<>>]
    /\ errorStream = [r \in Ranks |-> <<>>]
    /\ filesOpened = {}

NoProbe == [op |-> "none"]

Init ==
    /\ \E size \in 1..MaxWorkers, in \in Inputs : Start(size, in, "constructor")
    /\ probe = NoProbe

(***************************************************************************)
(* Communication runtime.                                                  *)
(***************************************************************************)
\* MPI_Bcast from rank 0: the root appends the values to the log; another
\* rank completes its n next broadcasts once the root has issued them.
BcastReady(r, n) == Len(bcastLog) >= bcastSeen[r] + n

BcastValue(r, k) == bcastLog[bcastSeen[r] + k]

\* A blocking send completes only when the matching receive has taken the
\* message: the root issues no further call while a message is in flight.
SendCompleted == \A d \in Ranks : chan[d] = <<>>

Message(tag, data) == [tag |-> tag, data |-> data]

\* One collective call, as a rank issues it: the operation and its count.
Collective(op, count) == <<op, count>>

(***************************************************************************)
(* The constructor: MPI_Init, rank and size, then the command line.  With  *)
(* fewer than three positional arguments the root prints the usage and     *)
(* every rank calls exit(1).                                               *)
(***************************************************************************)
\* zeroTolerance when argv[4] is absent: 1e-12, below every nonzero value of
\* the model.
DefaultTolerance == 0

\* Mutant: one positional argument too few is accepted.
parseCommandLineArguments_TwoPositional(argc) == argc >= 3

\* The return value of parseCommandLineArguments.
parseCommandLineArguments(argc) == argc >= 4

\* The member zeroTolerance after parseCommandLineArguments.
zeroTolerance == IF input.argc >= 5 THEN input.tolerance ELSE DefaultTolerance

construct(r) ==
    /\ pc[r] = "constructor"
    /\ IF parseCommandLineArguments(input.argc)
       THEN /\ pc' = [pc EXCEPT ![r] = "readAndValidateInputs"]
            /\ UNCHANGED <<exitStatus, errorStream>>
       ELSE /\ errorStream' = IF r = 0 THEN [errorStream EXCEPT ![0] = Append(@, "Usage")]
                                        ELSE errorStream
            /\ exitStatus' = [exitStatus EXCEPT ![r] = 1]
            /\ pc' = [pc EXCEPT ![r] = "exited"]
    /\ UNCHANGED <<envVars, filesOpened, validationStatus, dimVars, dataVars, outputFile,
                   scatterVars, collectiveVars>>

(***************************************************************************)
(* readAndValidateInputs: the root reads both files and validates, the     *)
(* status is broadcast, a failed status makes run() return 1.              *)
(***************************************************************************)
rootValidationStatus ==
    IF ~input.matrix.readable THEN 0
    ELSE IF ~input.vector.readable THEN 0
    ELSE IF ~validateVectorDimensions(input.vector.rows, input.vector.columns,
                                      input.matrix.columns) THEN 0
    ELSE 1

\* What the root writes to cerr in readAndValidateInputs.
validationMessages ==
    IF ~input.matrix.readable
    THEN <<"Failed to read matrix file", "Input validation failed">>
    ELSE IF ~input.vector.readable
    THEN <<"Failed to read vector file", "Input validation failed">>
    ELSE IF input.vector.columns # 1 /\ input.vector.rows # 1
    THEN <<"Second input must be a vector", "Input validation failed">>
    ELSE IF rootValidationStatus = 0
    THEN <<"Dimension mismatch", "Input validation failed">>
    ELSE <<>>

\* Mutant: the broadcast is issued by the root only; the other ranks keep
\* their initial status.
StatusAfterBcast_RootOnly(r) == IF r = 0 THEN rootValidationStatus ELSE validationStatus[r]

\* validationStatus of rank r after MPI_Bcast(&validationStatus, ..., 0, ...).
StatusAfterBcast(r) == IF r = 0 THEN rootValidationStatus ELSE BcastValue(r, 1)

readAndValidateInputs(r) ==
    /\ pc[r] = "readAndValidateInputs"
    /\ IF r = 0
       THEN /\ validationStatus' = [validationStatus EXCEPT ![0] = StatusAfterBcast(0)]
            /\ IF input.matrix.readable
               THEN /\ matrixRows' = [matrixRows EXCEPT ![0] = input.matrix.rows]
                    /\ matrixColumns' = [matrixColumns EXCEPT ![0] = input.matrix.columns]
                    /\ matrixEntries' = [matrixEntries EXCEPT ![0] = input.matrix.entries]
               ELSE UNCHANGED <<matrixRows, matrixColumns, matrixEntries>>
            /\ IF input.matrix.readable /\ input.vector.readable
               THEN /\ vectorRows' = [vectorRows EXCEPT ![0] = input.vector.rows]
                    /\ vectorColumns' = [vectorColumns EXCEPT ![0] = input.vector.columns]
                    /\ vectorEntries' = [vectorEntries EXCEPT ![0] = input.vector.entries]
               ELSE UNCHANGED <<vectorRows, vectorColumns, vectorEntries>>
            /\ bcastLog' = Append(bcastLog, rootValidationStatus)
            /\ filesOpened' = filesOpened \cup {"matrix"}
                                  \cup (IF input.matrix.readable THEN {"vector"} ELSE {})
            /\ errorStream' = [errorStream EXCEPT ![0] = @ \o validationMessages]
       ELSE /\ BcastReady(r, 1)
            /\ validationStatus' = [validationStatus EXCEPT ![r] = StatusAfterBcast(r)]
            /\ UNCHANGED <<dimVars, matrixEntries, vectorEntries, bcastLog, ioVars>>
    /\ bcastSeen' = [bcastSeen EXCEPT ![r] = @ + 1]
    /\ collectiveLog' = [collectiveLog EXCEPT ![r] = Append(@, Collective("MPI_Bcast", 1))]
    /\ IF validationStatus'[r] = 0
       THEN /\ exitStatus' = [exitStatus EXCEPT ![r] = 1]
            /\ pc' = [pc EXCEPT ![r] = "done"]
       ELSE /\ pc' = [pc EXCEPT ![r] = "broadcastDimensions"]
            /\ UNCHANGED exitStatus
    /\ UNCHANGED <<envVars, rowDistribution, localMatrixEntries, localMatrix,
                   denseVector, localResult, globalResult, outputFile, scatterVars,
                   allSizes, segments, segmentSent>>

(***************************************************************************)
(* broadcastDimensions: four broadcasts, in the order matrixRows,          *)
(* matrixColumns, vectorRows, vectorColumns.  Every rank then computes the *)
(* row distribution from its matrixRows and calls distributeMatrixRows:    *)
(* the root classifies, another rank enters receiveCoordinateEntries.      *)
(***************************************************************************)
broadcastDimensions(r) ==
    /\ pc[r] = "broadcastDimensions"
    /\ IF r = 0
       THEN /\ bcastLog' = bcastLog \o <<matrixRows[0], matrixColumns[0],
                                         vectorRows[0], vectorColumns[0]>>
            /\ UNCHANGED dimVars
       ELSE /\ BcastReady(r, 4)
            /\ matrixRows' = [matrixRows EXCEPT ![r] = BcastValue(r, 1)]
            /\ matrixColumns' = [matrixColumns EXCEPT ![r] = BcastValue(r, 2)]
            /\ vectorRows' = [vectorRows EXCEPT ![r] = BcastValue(r, 3)]
            /\ vectorColumns' = [vectorColumns EXCEPT ![r] = BcastValue(r, 4)]
            /\ UNCHANGED bcastLog
    /\ bcastSeen' = [bcastSeen EXCEPT ![r] = @ + 4]
    /\ collectiveLog' = [collectiveLog EXCEPT ![r] =
           @ \o [k \in 1..4 |-> Collective("MPI_Bcast", 1)]]
    /\ rowDistribution' =
           [rowDistribution EXCEPT ![r] = calculateRowDistribution(matrixRows'[r], mpiSize)]
    /\ pc' = [pc EXCEPT ![r] = IF r = 0 THEN "distributeMatrixRows" ELSE "recvCount"]
    /\ UNCHANGED <<envVars, ioVars, validationStatus, matrixEntries, vectorEntries,
                   localMatrixEntries, localMatrix, denseVector, localResult,
                   globalResult, exitStatus, outputFile, scatterVars, allSizes,
                   segments, segmentSent>>

(***************************************************************************)
(* distributeMatrixRows on the root: it classifies the entries, keeps      *)
(* bucket 0 and enters the send loop.                                      *)
(***************************************************************************)
\* Mutant: the send loop starts at rank 0, so the root sends to itself.
distributeMatrixRows_SendsToRoot ==
    /\ pc[0] = "distributeMatrixRows"
    /\ LET buckets == entriesPerProcess(matrixEntries[0], rowDistribution[0], mpiSize)
       IN  /\ localMatrixEntries' = [localMatrixEntries EXCEPT ![0] = buckets[1]]
           /\ sendBuckets' = [buckets EXCEPT ![1] = <<>>]
    /\ destinationRank' = 0
    /\ nextTag' = 0
    /\ pc' = [pc EXCEPT ![0] = "sendCoordinateEntries"]
    /\ UNCHANGED <<envVars, ioVars, validationStatus, dimVars, matrixEntries, vectorEntries,
                   rowDistribution, localMatrix, denseVector, localResult, globalResult,
                   exitStatus, outputFile, entryCount, rows, columns, chan, sendLog,
                   recvLog, scatterResult, collectiveVars>>

distributeMatrixRows ==
    /\ pc[0] = "distributeMatrixRows"
    /\ LET buckets == entriesPerProcess(matrixEntries[0], rowDistribution[0], mpiSize)
       IN  /\ localMatrixEntries' = [localMatrixEntries EXCEPT ![0] = buckets[1]]
           /\ sendBuckets' = [buckets EXCEPT ![1] = <<>>]
    /\ destinationRank' = 1
    /\ nextTag' = 0
    /\ pc' = [pc EXCEPT ![0] = "sendCoordinateEntries"]
    /\ UNCHANGED <<envVars, ioVars, validationStatus, dimVars, matrixEntries, vectorEntries,
                   rowDistribution, localMatrix, denseVector, localResult, globalResult,
                   exitStatus, outputFile, entryCount, rows, columns, chan, sendLog,
                   recvLog, scatterResult, collectiveVars>>

\* Mutant: the columns array is filled from the rows.
Payload_ColumnsFromRows(entries, tag) ==
    CASE tag = 0 -> <<Len(entries)>>
      [] tag = 1 -> [i \in 1..Len(entries) |-> entries[i].row]
      [] tag = 2 -> [i \in 1..Len(entries) |-> entries[i].row]
      [] tag = 3 -> [i \in 1..Len(entries) |-> entries[i].value]

\* The payload of the MPI_Send with the given tag in sendCoordinateEntries.
Payload(entries, tag) ==
    CASE tag = 0 -> <<Len(entries)>>
      [] tag = 1 -> [i \in 1..Len(entries) |-> entries[i].row]
      [] tag = 2 -> [i \in 1..Len(entries) |-> entries[i].column]
      [] tag = 3 -> [i \in 1..Len(entries) |-> entries[i].value]

\* Mutant: the columns are sent before the rows.
TagAfter_ColumnsFirst(entries, tag) ==
    CASE tag = 0 -> (IF Len(entries) > 0 THEN 2 ELSE 0)
      [] tag = 2 -> 1
      [] tag = 1 -> 3
      [] OTHER -> 0

\* Mutant: the three arrays are sent whatever the count.
TagAfter_AlwaysData(entries, tag) ==
    IF tag < 3 THEN tag + 1 ELSE 0

\* The tag sent after `tag` to the same destination, 0 when the destination
\* is finished (entryCount = 0, or the values were sent).
TagAfter(entries, tag) ==
    IF tag = 0 THEN (IF Len(entries) > 0 THEN 1 ELSE 0)
    ELSE IF tag < 3 THEN tag + 1
    ELSE 0

\* One MPI_Send of sendCoordinateEntries(entriesPerProcess[d], d).
sendCoordinateEntries ==
    /\ pc[0] = "sendCoordinateEntries"
    /\ destinationRank < mpiSize
    /\ SendCompleted
    /\ LET d == destinationRank
           entries == sendBuckets[d + 1]
           data == Payload(entries, nextTag)
           after == TagAfter(entries, nextTag)
       IN  /\ chan' = [chan EXCEPT ![d] = Append(@, Message(nextTag, data))]
           /\ sendLog' = [sendLog EXCEPT ![d] = Append(@, Message(nextTag, data))]
           /\ nextTag' = after
           /\ destinationRank' = IF after = 0 THEN d + 1 ELSE d
    /\ UNCHANGED <<envVars, ioVars, pc, validationStatus, dimVars, dataVars, exitStatus,
                   outputFile, sendBuckets, entryCount, rows, columns, recvLog,
                   scatterResult, collectiveVars>>

\* Mutant: run() does not free matrixEntries after the distribution.
distributeReturn_KeepsEntries ==
    /\ pc[0] = "sendCoordinateEntries"
    /\ destinationRank >= mpiSize
    /\ SendCompleted
    /\ scatterResult' = [scatterResult EXCEPT ![0] = <<localMatrixEntries[0]>>]
    /\ pc' = [pc EXCEPT ![0] = "convertCOOtoCSRLocal"]
    /\ UNCHANGED <<envVars, ioVars, validationStatus, dimVars, matrixEntries, vectorEntries,
                   rowDistribution, localMatrixEntries, localMatrix, denseVector,
                   localResult, globalResult, exitStatus, outputFile, sendBuckets,
                   destinationRank, nextTag, entryCount, rows, columns, chan, sendLog,
                   recvLog, collectiveVars>>

\* The root leaves distributeMatrixRows after its last send has completed;
\* run() then frees matrixEntries.
distributeReturn ==
    /\ pc[0] = "sendCoordinateEntries"
    /\ destinationRank >= mpiSize
    /\ SendCompleted
    /\ scatterResult' = [scatterResult EXCEPT ![0] = <<localMatrixEntries[0]>>]
    /\ matrixEntries' = [matrixEntries EXCEPT ![0] = <<>>]
    /\ pc' = [pc EXCEPT ![0] = "convertCOOtoCSRLocal"]
    /\ UNCHANGED <<envVars, ioVars, validationStatus, dimVars, vectorEntries, rowDistribution,
                   localMatrixEntries, localMatrix, denseVector, localResult,
                   globalResult, exitStatus, outputFile, sendBuckets, destinationRank,
                   nextTag, entryCount, rows, columns, chan, sendLog, recvLog,
                   collectiveVars>>

\* Mutant: the columns are received before the rows.
ExpectedTag_ColumnsFirst(r) ==
    CASE pc[r] = "recvCount" -> 0
      [] pc[r] = "recvRows" -> 2
      [] pc[r] = "recvColumns" -> 1
      [] pc[r] = "recvValues" -> 3
      [] OTHER -> -1

\* The tag a rank blocked in MPI_Recv is waiting for.
ExpectedTag(r) ==
    CASE pc[r] = "recvCount" -> 0
      [] pc[r] = "recvRows" -> 1
      [] pc[r] = "recvColumns" -> 2
      [] pc[r] = "recvValues" -> 3
      [] OTHER -> -1

\* Mutant: the arrays are received with the capacity of one element.
ExpectedLength_OneElement(r) == 1

\* The element count a rank blocked in MPI_Recv passes to the call.
ExpectedLength(r) == IF pc[r] = "recvCount" THEN 1 ELSE entryCount[r]

\* Mutant: the three arrays are received whatever the count: a rank that
\* was sent the count 0 waits for rows that are never sent.
receiveCoordinateEntries_AlwaysExpectsData(r) ==
    /\ r # 0
    /\ ExpectedTag(r) >= 0
    /\ chan[r] # <<>>
    /\ Head(chan[r]).tag = ExpectedTag(r)
    /\ LET data == Head(chan[r]).data
       IN  /\ chan' = [chan EXCEPT ![r] = Tail(@)]
           /\ recvLog' = [recvLog EXCEPT ![r] = Append(@, <<ExpectedTag(r), ExpectedLength(r)>>)]
           /\ CASE pc[r] = "recvCount" ->
                     /\ entryCount' = [entryCount EXCEPT ![r] = data[1]]
                     /\ pc' = [pc EXCEPT ![r] = "recvRows"]
                     /\ UNCHANGED scatterResult
                     /\ UNCHANGED <<rows, columns, localMatrixEntries>>
                [] pc[r] = "recvRows" ->
                     /\ rows' = [rows EXCEPT ![r] = data]
                     /\ pc' = [pc EXCEPT ![r] = "recvColumns"]
                     /\ UNCHANGED <<entryCount, columns, localMatrixEntries, scatterResult>>
                [] pc[r] = "recvColumns" ->
                     /\ columns' = [columns EXCEPT ![r] = data]
                     /\ pc' = [pc EXCEPT ![r] = "recvValues"]
                     /\ UNCHANGED <<entryCount, rows, localMatrixEntries, scatterResult>>
                [] pc[r] = "recvValues" ->
                     /\ localMatrixEntries' =
                            [localMatrixEntries EXCEPT ![r] =
                                [i \in 1..entryCount[r] |->
                                    CoordinateEntry(rows[r][i], columns[r][i], data[i])]]
                     /\ scatterResult' = [scatterResult EXCEPT ![r] = <<localMatrixEntries'[r]>>]
                     /\ rows' = [rows EXCEPT ![r] = <<>>]
                     /\ columns' = [columns EXCEPT ![r] = <<>>]
                     /\ pc' = [pc EXCEPT ![r] = "convertCOOtoCSRLocal"]
                     /\ UNCHANGED entryCount
    /\ UNCHANGED <<envVars, ioVars, validationStatus, dimVars, matrixEntries, vectorEntries,
                   rowDistribution, localMatrix, denseVector, localResult, globalResult,
                   exitStatus, outputFile, sendBuckets, destinationRank, nextTag,
                   sendLog, collectiveVars>>

\* One MPI_Recv of receiveCoordinateEntries on a non-root rank: it matches
\* the first message from the root with the expected tag.
receiveCoordinateEntries(r) ==
    /\ r # 0
    /\ ExpectedTag(r) >= 0
    /\ chan[r] # <<>>
    /\ Head(chan[r]).tag = ExpectedTag(r)
    /\ LET data == Head(chan[r]).data
       IN  /\ chan' = [chan EXCEPT ![r] = Tail(@)]
           /\ recvLog' = [recvLog EXCEPT ![r] = Append(@, <<ExpectedTag(r), ExpectedLength(r)>>)]
           /\ CASE pc[r] = "recvCount" ->
                     /\ entryCount' = [entryCount EXCEPT ![r] = data[1]]
                     /\ pc' = [pc EXCEPT ![r] = IF data[1] > 0 THEN "recvRows"
                                                ELSE "convertCOOtoCSRLocal"]
                     /\ scatterResult' = IF data[1] > 0 THEN scatterResult
                                         ELSE [scatterResult EXCEPT ![r] = << <<>> >>]
                     /\ UNCHANGED <<rows, columns, localMatrixEntries>>
                [] pc[r] = "recvRows" ->
                     /\ rows' = [rows EXCEPT ![r] = data]
                     /\ pc' = [pc EXCEPT ![r] = "recvColumns"]
                     /\ UNCHANGED <<entryCount, columns, localMatrixEntries, scatterResult>>
                [] pc[r] = "recvColumns" ->
                     /\ columns' = [columns EXCEPT ![r] = data]
                     /\ pc' = [pc EXCEPT ![r] = "recvValues"]
                     /\ UNCHANGED <<entryCount, rows, localMatrixEntries, scatterResult>>
                [] pc[r] = "recvValues" ->
                     /\ localMatrixEntries' =
                            [localMatrixEntries EXCEPT ![r] =
                                [i \in 1..entryCount[r] |->
                                    CoordinateEntry(rows[r][i], columns[r][i], data[i])]]
                     /\ scatterResult' = [scatterResult EXCEPT ![r] = <<localMatrixEntries'[r]>>]
                     /\ rows' = [rows EXCEPT ![r] = <<>>]
                     /\ columns' = [columns EXCEPT ![r] = <<>>]
                     /\ pc' = [pc EXCEPT ![r] = "convertCOOtoCSRLocal"]
                     /\ UNCHANGED entryCount
    /\ UNCHANGED <<envVars, ioVars, validationStatus, dimVars, matrixEntries, vectorEntries,
                   rowDistribution, localMatrix, denseVector, localResult, globalResult,
                   exitStatus, outputFile, sendBuckets, destinationRank, nextTag,
                   sendLog, collectiveVars>>

(***************************************************************************)
(* Step 4 of run(): the windowed conversion of the local entries, which    *)
(* are then released.                                                      *)
(***************************************************************************)
localRowStart(r) == rowDistribution[r][r + 1]

localRowEnd(r) == rowDistribution[r][r + 2]

convertLocal(r) ==
    /\ pc[r] = "convertCOOtoCSRLocal"
    /\ \E sorted \in SortOutcomes(localMatrixEntries[r]) :
           localMatrix' = [localMatrix EXCEPT ![r] =
               convertCOOtoCSRLocal(matrixColumns[r], sorted,
                                    localRowStart(r), localRowEnd(r))]
    /\ localMatrixEntries' = [localMatrixEntries EXCEPT ![r] = <<>>]
    /\ pc' = [pc EXCEPT ![r] = "prepareDenseVector"]
    /\ UNCHANGED <<envVars, ioVars, validationStatus, dimVars, matrixEntries, vectorEntries,
                   rowDistribution, denseVector, localResult, globalResult, exitStatus,
                   outputFile, scatterVars, collectiveVars>>

(***************************************************************************)
(* prepareDenseVector: the root builds the dense vector; its length is     *)
(* broadcast, then its data when the length is positive.  run() then       *)
(* releases vectorEntries.                                                 *)
(***************************************************************************)
\* Mutant: the root broadcasts the data whatever the length.
vectorCollectives_RootAlwaysData(r, vectorLength) ==
    IF r = 0 \/ vectorLength > 0
    THEN <<Collective("MPI_Bcast", 1), Collective("MPI_Bcast", vectorLength)>>
    ELSE <<Collective("MPI_Bcast", 1)>>

\* The collective calls of prepareDenseVector on a rank whose vectorLength is
\* known: the length, then the data if (vectorLength > 0).
vectorCollectives(r, vectorLength) ==
    IF vectorLength > 0
    THEN <<Collective("MPI_Bcast", 1), Collective("MPI_Bcast", vectorLength)>>
    ELSE <<Collective("MPI_Bcast", 1)>>

prepareDenseVector(r) ==
    /\ pc[r] = "prepareDenseVector"
    /\ IF r = 0
       THEN LET dense == buildDenseVector(vectorRows[0], vectorColumns[0], vectorEntries[0])
                calls == vectorCollectives(0, Len(dense))
            IN  /\ denseVector' = [denseVector EXCEPT ![0] = dense]
                /\ bcastLog' = IF Len(calls) > 1
                               THEN bcastLog \o <<Len(dense), dense>>
                               ELSE Append(bcastLog, Len(dense))
                /\ bcastSeen' = [bcastSeen EXCEPT ![0] = @ + Len(calls)]
                /\ collectiveLog' = [collectiveLog EXCEPT ![0] = @ \o calls]
       ELSE /\ BcastReady(r, 1)
            /\ LET vectorLength == BcastValue(r, 1)
                   calls == vectorCollectives(r, vectorLength)
               IN  /\ IF Len(calls) > 1
                      THEN /\ BcastReady(r, 2)
                           /\ denseVector' = [denseVector EXCEPT ![r] =
                                  [i \in 1..vectorLength |-> BcastValue(r, 2)[i]]]
                      ELSE denseVector' = [denseVector EXCEPT ![r] = Zeros(vectorLength)]
                   /\ bcastSeen' = [bcastSeen EXCEPT ![r] = @ + Len(calls)]
                   /\ collectiveLog' = [collectiveLog EXCEPT ![r] = @ \o calls]
            /\ UNCHANGED bcastLog
    /\ vectorEntries' = [vectorEntries EXCEPT ![r] = <<>>]
    /\ pc' = [pc EXCEPT ![r] = "multiply"]
    /\ UNCHANGED <<envVars, ioVars, validationStatus, dimVars, matrixEntries, rowDistribution,
                   localMatrixEntries, localMatrix, localResult, globalResult,
                   exitStatus, outputFile, scatterVars, allSizes, segments, segmentSent>>

(***************************************************************************)
(* Step 6 of run(): the local product.                                     *)
(***************************************************************************)
multiplyLocal(r) ==
    /\ pc[r] = "multiply"
    /\ localResult' = [localResult EXCEPT ![r] = multiply(localMatrix[r], denseVector[r])]
    /\ pc' = [pc EXCEPT ![r] = "gatherResults"]
    /\ UNCHANGED <<envVars, ioVars, validationStatus, dimVars, matrixEntries, vectorEntries,
                   rowDistribution, localMatrixEntries, localMatrix, denseVector,
                   globalResult, exitStatus, outputFile, scatterVars, collectiveVars>>

(***************************************************************************)
(* gatherResults: MPI_Gather of the local sizes, then MPI_Gatherv of the   *)
(* local results.  A non-root rank contributes and returns 0 from run();   *)
(* the root completes the gathers once every rank has contributed.         *)
(***************************************************************************)
\* The receive counts of a rank's Gatherv call: the gathered sizes on the
\* root, the zero-initialised allSizes elsewhere.
allSizesOf(r, sizes) == [k \in 1..mpiSize |-> IF r = 0 THEN sizes[k - 1] ELSE 0]

\* totalSize of gatherResults: accumulated on the root only.
totalSizeOf(r, sizes) == IF r = 0 THEN SumSeq(allSizesOf(r, sizes)) ELSE 0

gatherResults(r, sizes, contributed) ==
    IF r = 0
    THEN Gatherv([k \in 1..mpiSize |-> contributed[k - 1]], allSizesOf(0, sizes),
                 displacements(allSizesOf(0, sizes)), totalSizeOf(0, sizes))
    ELSE Zeros(totalSizeOf(r, sizes))

gather(r) ==
    /\ pc[r] = "gatherResults"
    /\ r = 0 => \A q \in Ranks \ {0} : segmentSent[q]
    /\ allSizes' = [allSizes EXCEPT ![r] = Len(localResult[r])]
    /\ segments' = [segments EXCEPT ![r] = localResult[r]]
    /\ segmentSent' = [segmentSent EXCEPT ![r] = TRUE]
    /\ globalResult' = [globalResult EXCEPT ![r] = gatherResults(r, allSizes', segments')]
    /\ collectiveLog' = [collectiveLog EXCEPT ![r] =
           @ \o <<Collective("MPI_Gather", 1),
                  Collective("MPI_Gatherv", Len(localResult[r]))>>]
    /\ IF r = 0
       THEN /\ pc' = [pc EXCEPT ![0] = "writeVector"]
            /\ UNCHANGED exitStatus
       ELSE /\ pc' = [pc EXCEPT ![r] = "done"]
            /\ exitStatus' = [exitStatus EXCEPT ![r] = 0]
    /\ UNCHANGED <<envVars, ioVars, validationStatus, dimVars, matrixEntries, vectorEntries,
                   rowDistribution, localMatrixEntries, localMatrix, denseVector,
                   localResult, outputFile, scatterVars, bcastLog, bcastSeen>>

(***************************************************************************)
(* Step 8 of run(): the root writes the output; the output file may fail   *)
(* to open.                                                                *)
(***************************************************************************)
\* Mutant: run() returns 0 when the output file does not open.
writeOutput_ReturnsZero ==
    /\ pc[0] = "writeVector"
    /\ \E opened \in BOOLEAN :
           IF opened
           THEN /\ outputFile' = <<writeVector(globalResult[0], zeroTolerance)>>
                /\ exitStatus' = [exitStatus EXCEPT ![0] = 0]
                /\ errorStream' = [errorStream EXCEPT ![0] =
                                       Append(@, "Successfully wrote output")]
           ELSE /\ exitStatus' = [exitStatus EXCEPT ![0] = 0]
                /\ errorStream' = [errorStream EXCEPT ![0] =
                                       Append(@, "Failed to write output file")]
                /\ UNCHANGED outputFile
    /\ filesOpened' = filesOpened \cup {"output"}
    /\ pc' = [pc EXCEPT ![0] = "done"]
    /\ UNCHANGED <<envVars, validationStatus, dimVars, dataVars, scatterVars,
                   collectiveVars>>

writeOutput ==
    /\ pc[0] = "writeVector"
    /\ \E opened \in BOOLEAN :
           IF opened
           THEN /\ outputFile' = <<writeVector(globalResult[0], zeroTolerance)>>
                /\ exitStatus' = [exitStatus EXCEPT ![0] = 0]
                /\ errorStream' = [errorStream EXCEPT ![0] =
                                       Append(@, "Successfully wrote output")]
           ELSE /\ exitStatus' = [exitStatus EXCEPT ![0] = 1]
                /\ errorStream' = [errorStream EXCEPT ![0] =
                                       Append(@, "Failed to write output file")]
                /\ UNCHANGED outputFile
    /\ filesOpened' = filesOpened \cup {"output"}
    /\ pc' = [pc EXCEPT ![0] = "done"]
    /\ UNCHANGED <<envVars, validationStatus, dimVars, dataVars, scatterVars,
                   collectiveVars>>

Next ==
    \/ \E r \in Ranks : construct(r)
    \/ \E r \in Ranks : readAndValidateInputs(r)
    \/ \E r \in Ranks : broadcastDimensions(r)
    \/ distributeMatrixRows
    \/ sendCoordinateEntries
    \/ distributeReturn
    \/ \E r \in Ranks : receiveCoordinateEntries(r)
    \/ \E r \in Ranks : convertLocal(r)
    \/ \E r \in Ranks : prepareDenseVector(r)
    \/ \E r \in Ranks : multiplyLocal(r)
    \/ \E r \in Ranks : gather(r)
    \/ writeOutput

Spec == Init /\ [][Next]_vars

\* Every rank is a process of its own that runs run() from its first
\* statement to its return: the steps of rank r.
RankStep(r) ==
    /\ r \in Ranks
    /\ \/ construct(r)
       \/ readAndValidateInputs(r)
       \/ broadcastDimensions(r)
       \/ r = 0 /\ (distributeMatrixRows \/ sendCoordinateEntries \/ distributeReturn)
       \/ receiveCoordinateEntries(r)
       \/ convertLocal(r)
       \/ prepareDenseVector(r)
       \/ multiplyLocal(r)
       \/ gather(r)
       \/ r = 0 /\ writeOutput

\* The runs in which no rank is halted for ever while it can take a step:
\* the operating system keeps scheduling every process, and a blocking MPI
\* call returns once it is matched.
Fairness == \A r \in 0..(MaxWorkers - 1) : WF_vars(RankStep(r))

\* The inputs of the fair runs: the examples, and the matrices of every
\* declared row count with no entry or a single one.
TerminationInputs ==
    ExampleInputs \cup {in \in MatrixFamily : Len(in.matrix.entries) <= 1}

FairInit ==
    /\ \E size \in 1..MaxWorkers, in \in TerminationInputs : Start(size, in, "constructor")
    /\ probe = NoProbe

SpecFair == FairInit /\ [][Next]_vars /\ Fairness


(***************************************************************************)
(* The partitioner applied on its own to every row count and worker count  *)
(* within MaxPartRows and MaxPartWorkers.                                  *)
(***************************************************************************)
\* All ranks of a finished single-rank run: the run plays no part here.
Idle == Start(1, CHOOSE in \in ExampleInputs : ~in.matrix.readable, "done")

PartitionInit ==
    /\ Idle
    /\ \E n \in 0..MaxPartRows, p \in 1..MaxPartWorkers :
           probe = [op |-> "calculateRowDistribution", totalNumberOfRows |-> n,
                    mpiSize |-> p, returned |-> FALSE, rowStartIndices |-> <<>>]

partitionRows ==
    /\ probe.op = "calculateRowDistribution"
    /\ ~probe.returned
    /\ probe' = [probe EXCEPT
                    !.returned = TRUE,
                    !.rowStartIndices =
                        calculateRowDistribution(probe.totalNumberOfRows, probe.mpiSize)]
    /\ UNCHANGED <<mpiSize, input, ioVars, pc, validationStatus, dimVars, dataVars,
                   exitStatus, outputFile, scatterVars, collectiveVars>>

PartitionNext == partitionRows

SpecPartition == PartitionInit /\ [][PartitionNext]_vars

(***************************************************************************)
(* The converter, the multiply engine, the owner search, the writer and    *)
(* the reader applied on their own to bounded arguments.                   *)
(***************************************************************************)
programVars == <<mpiSize, input, ioVars, pc, validationStatus, dimVars, dataVars,
                 exitStatus, outputFile, scatterVars, collectiveVars>>

\* Coordinate lists of at most n entries over the given rows and columns; the
\* k-th entry has value EntryValue(k).
CoordinateLists(rowSet, columnSet, n) ==
    {[k \in 1..Len(rc) |-> CoordinateEntry(rc[k][1], rc[k][2], EntryValue(k))] :
        rc \in SeqsUpTo(rowSet \X columnSet, n)}

\* Calls of the two converters for a matrix of r rows: a row index may be one
\* past the last row.
ConverterCalls(r) ==
    {[op |-> "convertCOOtoCSR", numberOfRows |-> r, numberOfColumns |-> 2,
      coordinateEntries |-> e, status |-> "called", csrMatrix |-> EmptyCSR] :
        e \in CoordinateLists(0..r, {0, 1}, MaxListLen)}
    \cup
    {[op |-> "convertCOOtoCSRLocal", numberOfRows |-> r, numberOfColumns |-> 2,
      coordinateEntries |-> e, localRowStart |-> w[1], localRowEnd |-> w[2],
      status |-> "called", csrMatrix |-> EmptyCSR] :
        e \in CoordinateLists(0..r, {0, 1}, MaxListLen),
        w \in {w \in (0..r) \X (0..r) : w[1] <= w[2]}}

\* convertCOOtoCSR: when an increment is past the end of rowPointers it may
\* also land in the allocator's bookkeeping, and the process aborts.
convertGlobal ==
    /\ probe.op = "convertCOOtoCSR"
    /\ probe.status = "called"
    /\ \E sorted \in SortOutcomes(probe.coordinateEntries) :
       \E landing \in (IF writesPastRowPointers(probe.numberOfRows, probe.coordinateEntries)
                       THEN -1..Len(probe.coordinateEntries) ELSE {0}) :
           probe' = IF landing = -1
                    THEN [probe EXCEPT !.status = "aborted"]
                    ELSE [probe EXCEPT
                             !.status = "returned",
                             !.csrMatrix = convertCOOtoCSR(probe.numberOfRows,
                                                           probe.numberOfColumns,
                                                           sorted, landing)]
    /\ UNCHANGED programVars

convertWindowed ==
    /\ probe.op = "convertCOOtoCSRLocal"
    /\ probe.status = "called"
    /\ \E sorted \in SortOutcomes(probe.coordinateEntries) :
           probe' = [probe EXCEPT
                        !.status = "returned",
                        !.csrMatrix = convertCOOtoCSRLocal(probe.numberOfColumns, sorted,
                                                           probe.localRowStart,
                                                           probe.localRowEnd)]
    /\ UNCHANGED programVars

\* Header lines: every field and symmetry, and one without a symmetry token.
HeaderLines ==
    {<<"%%MatrixMarket", "matrix", "coordinate", field, symmetry>> :
        field \in {"real", "pattern"},
        symmetry \in {"general", "symmetric", "hermitian", "skew-symmetric"}}
    \cup {<<"%%MatrixMarket", "matrix", "coordinate", "real">>}

\* Lines after the dimension line: a comment, a blank line, a line of two
\* numbers, data lines off and on the diagonal, a data line with index 0.
DataLines ==
    {Line(TRUE, <<>>), Line(FALSE, <<>>), Line(FALSE, <<1, 2>>), Line(FALSE, <<1, 2, 5>>),
     Line(FALSE, <<2, 2, 3>>), Line(FALSE, <<2, 1, 7>>), Line(FALSE, <<0, 1, 4>>)}

\* Files with header h read after their dimension line: at most MaxListLen
\* lines, and a declared count of at most MaxListLen.
ReaderCalls(h) ==
    {[op |-> "readCoordinateEntries", headerLine |-> h, numberOfNonZeros |-> n,
      lines |-> l, status |-> "called", coordinateEntries |-> <<>>] :
        n \in 0..MaxListLen, l \in SeqsUpTo(DataLines, MaxListLen)}

\* readMatrixMarketFile from the header to the entries: parseHeaderLine, then
\* readCoordinateEntries on the lines after the dimension line.
readEntriesCall ==
    /\ probe.op = "readCoordinateEntries"
    /\ probe.status = "called"
    /\ LET flags == parseHeaderLine(probe.headerLine)
       IN  probe' = [probe EXCEPT
                        !.status = "returned",
                        !.coordinateEntries =
                            readCoordinateEntries(probe.lines, 1, 0, probe.numberOfNonZeros,
                                                  flags.isPatternMatrix,
                                                  flags.isSymmetricMatrix, <<>>)]
    /\ UNCHANGED programVars

\* Calls of findOwnerProcess on p workers: the distribution of every row
\* count, and every row index from -1 to one past MaxPartRows.
OwnerCalls(p) ==
    {[op |-> "findOwnerProcess", rowIndex |-> i, totalNumberOfRows |-> n, mpiSize |-> p,
      rowDistribution |-> calculateRowDistribution(n, p),
      status |-> "called", ownerRank |-> 0, bucketCount |-> 0] :
        i \in -1..(MaxPartRows + 1), n \in 0..MaxPartRows}

\* The classification of one entry in distributeMatrixRows: the owner of its
\* row indexes entriesPerProcess, a vector of mpiSize buckets.
findOwnerCall ==
    /\ probe.op = "findOwnerProcess"
    /\ probe.status = "called"
    /\ probe' = [probe EXCEPT
                    !.status = "returned",
                    !.ownerRank = findOwnerProcess(probe.rowIndex, probe.rowDistribution,
                                                   probe.mpiSize),
                    !.bucketCount = Len(entriesPerProcess(<<>>, probe.rowDistribution,
                                                          probe.mpiSize))]
    /\ UNCHANGED programVars

\* The local matrices of r rows: those built from the lists whose column
\* indices go up to MaxVectorLen.
LocalMatrices(r) ==
    {convertCOOtoCSRLocal(MaxVectorLen + 1, CHOOSE sorted \in SortOutcomes(e) : TRUE, 0, r) :
        e \in CoordinateLists(0..(r - 1), 0..MaxVectorLen, MaxEntries)}

\* Calls of multiply: a local matrix of r rows and a vector of at most
\* MaxVectorLen elements.
MultiplyCalls(r) ==
    {[op |-> "multiply", localMatrix |-> m, globalVector |-> x, status |-> "called",
      result |-> <<>>, reads |-> {}, again |-> <<>>] :
        m \in LocalMatrices(r), x \in SeqsUpTo({-1, 2}, MaxVectorLen)}

\* Mutant: localResult is a buffer kept between the calls and is not reset,
\* so the second call adds to what the first call left.
multiplyCall_KeepsLocalResult ==
    /\ probe.op = "multiply"
    /\ probe.status \in {"called", "returned"}
    /\ LET localResult_ == multiply(probe.localMatrix, probe.globalVector)
       IN  probe' = IF probe.status = "called"
                    THEN [probe EXCEPT
                             !.status = "returned",
                             !.result = localResult_,
                             !.reads = vectorReads(probe.localMatrix, probe.globalVector)]
                    ELSE [probe EXCEPT
                             !.status = "returned twice",
                             !.again = [i \in 1..Len(localResult_) |->
                                           probe.result[i] + localResult_[i]]]
    /\ UNCHANGED programVars

\* multiply, called once and then once more on the same arguments: result is
\* what the first call returns, again what the second returns.  The arguments
\* are const references and multiply makes no MPI call.
multiplyCall ==
    /\ probe.op = "multiply"
    /\ probe.status \in {"called", "returned"}
    /\ LET localResult_ == multiply(probe.localMatrix, probe.globalVector)
       IN  probe' = IF probe.status = "called"
                    THEN [probe EXCEPT
                             !.status = "returned",
                             !.result = localResult_,
                             !.reads = vectorReads(probe.localMatrix, probe.globalVector)]
                    ELSE [probe EXCEPT
                             !.status = "returned twice",
                             !.again = localResult_]
    /\ UNCHANGED programVars

\* Calls of writeVector with tolerance t: vectors of at most MaxListLen
\* elements in -2..2.
WriterCalls(t) ==
    {[op |-> "writeVector", vectorData |-> v, zeroTolerance |-> t,
      status |-> "called", written |-> <<>>] :
        v \in SeqsUpTo(-2..2, MaxListLen)}

\* writeVector: the output file opens or not; written is <<file>> when it did.
writeVectorCall ==
    /\ probe.op = "writeVector"
    /\ probe.status = "called"
    /\ \E opened \in BOOLEAN :
           probe' = [probe EXCEPT
                        !.status = IF opened THEN "returned true" ELSE "returned false",
                        !.written = IF opened
                                    THEN <<writeVector(probe.vectorData, probe.zeroTolerance)>>
                                    ELSE <<>>]
    /\ UNCHANGED programVars

\* Two calls of convertCOOtoCSRLocal in one build on two arrangements of the
\* same n entries of row 0 (a one-row window).
RepeatedCalls(n) ==
    {[op |-> "convertCOOtoCSRLocal twice", first |-> e, second |-> Permuted(e, p),
      status |-> "called", visitedFirst |-> <<>>, visitedSecond |-> <<>>,
      csrFirst |-> EmptyCSR, csrSecond |-> EmptyCSR] :
        e \in {l \in CoordinateLists({0}, {0, 1}, n) : Len(l) = n},
        p \in Permutations(1..n)}

\* The same std::sort runs in both calls: on lists with the same keys in the
\* same positions it makes the same comparisons and the same moves.  visited
\* is the list as the sort left it, the order in which the scan accumulates.
convertRepeated ==
    /\ probe.op = "convertCOOtoCSRLocal twice"
    /\ probe.status = "called"
    /\ \E p \in SortingPermutations(probe.first), q \in SortingPermutations(probe.second) :
           /\ Keys(probe.first) = Keys(probe.second) => q = p
           /\ probe' = [probe EXCEPT
                            !.status = "returned",
                            !.visitedFirst = Permuted(probe.first, p),
                            !.visitedSecond = Permuted(probe.second, q),
                            !.csrFirst = convertCOOtoCSRLocal(2, Permuted(probe.first, p), 0, 1),
                            !.csrSecond = convertCOOtoCSRLocal(2, Permuted(probe.second, q), 0, 1)]
    /\ UNCHANGED programVars

\* Headers of the files read whole.
FileHeaders ==
    {<<"%%MatrixMarket", "matrix", "coordinate", "real", "general">>,
     <<"%%MatrixMarket", "matrix", "coordinate", "pattern", "general">>,
     <<"%%MatrixMarket", "matrix", "coordinate", "real", "symmetric">>}

\* Lines of a file after its dimension line: a comment, a blank line, lines
\* of one and of two numbers, data lines of three numbers, a line of four,
\* a data line whose row is past the two declared rows.
FileDataLines ==
    {Line(TRUE, <<>>), Line(FALSE, <<>>), Line(FALSE, <<3>>), Line(FALSE, <<1, 2>>),
     Line(FALSE, <<1, 2, 5>>), Line(FALSE, <<2, 2, 3>>), Line(FALSE, <<2, 1, 7, 9>>),
     Line(FALSE, <<3, 1, 4>>)}

\* What may stand between the header and the dimension line.
Preambles == {<<>>, <<Line(TRUE, <<>>)>>, <<Line(FALSE, <<>>)>>, <<Line(FALSE, <<1, 2>>)>>}

\* Files with header h: a preamble, the dimension line "2 2 n" and at most
\* MaxListLen further lines; files that end before a dimension line; a file
\* without any line; a file that cannot be opened.
FileCalls(h) ==
    LET call(kind, pre, dims, n, l) ==
            [op |-> "readMatrixMarketFile", file |-> kind, headerLine |-> h,
             preamble |-> pre, dimensions |-> dims, numberOfNonZeros |-> n, lines |-> l,
             status |-> "called", success |-> FALSE, numberOfRows |-> 0,
             numberOfColumns |-> 0, coordinateEntries |-> <<>>]
    IN  {call("text", pre, <<Line(FALSE, <<2, 2, n>>)>>, n, l) :
            pre \in Preambles, n \in 0..MaxListLen,
            l \in SeqsUpTo(FileDataLines, MaxListLen)}
        \cup {call("text", pre, <<>>, 0, <<>>) : pre \in Preambles}
        \cup {call(kind, <<>>, <<>>, 0, <<>>) : kind \in {"empty", "unreadable"}}

readFileCall ==
    /\ probe.op = "readMatrixMarketFile"
    /\ probe.status = "called"
    /\ LET read == readMatrixMarketFile(
                       probe.file # "unreadable",
                       IF probe.file = "text" THEN <<probe.headerLine>> ELSE <<>>,
                       probe.preamble \o probe.dimensions \o probe.lines)
       IN  probe' = [probe EXCEPT
                        !.status = "returned",
                        !.success = read.success,
                        !.numberOfRows = read.numberOfRows,
                        !.numberOfColumns = read.numberOfColumns,
                        !.coordinateEntries = read.coordinateEntries]
    /\ UNCHANGED programVars

FunctionsInit ==
    /\ Idle
    /\ \/ \E r \in 0..MaxRows : probe \in ConverterCalls(r)
       \/ \E r \in 0..MaxRows : probe \in MultiplyCalls(r)
       \/ \E t \in {0, 1} : probe \in WriterCalls(t)
       \/ \E h \in HeaderLines : probe \in ReaderCalls(h)
       \/ \E p \in 1..MaxPartWorkers : probe \in OwnerCalls(p)
       \/ \E n \in 0..MaxListLen : probe \in RepeatedCalls(n)
       \/ \E h \in FileHeaders : probe \in FileCalls(h)

FunctionsNext ==
    \/ convertGlobal
    \/ convertWindowed
    \/ multiplyCall
    \/ writeVectorCall
    \/ readEntriesCall
    \/ findOwnerCall
    \/ convertRepeated
    \/ readFileCall

SpecFunctions == FunctionsInit /\ [][FunctionsNext]_vars

(***************************************************************************)
(* main() of one process: the constructor, run(), the destructor and the   *)
(* catch handlers, with the calls the process makes to the communication   *)
(* runtime in order.  An exception of the standard library (bad_alloc,     *)
(* length_error) may leave any statement that allocates.                   *)
(***************************************************************************)
\* The statements of run() in order; "broadcastVector" is the part of
\* prepareDenseVector after the broadcast of the length.
RunStages ==
    <<"readAndValidateInputs", "broadcastDimensions", "distributeMatrixRows",
      "convertCOOtoCSRLocal", "prepareDenseVector", "broadcastVector", "multiply",
      "gatherResults", "writeVector">>

InRun(m) == \E k \in 1..Len(RunStages) : RunStages[k] = m.at

StageIndex(stage) == CHOOSE k \in 1..Len(RunStages) : RunStages[k] = stage

Repeat(call, n) == [k \in 1..n |-> call]

\* The runtime calls process m makes in the statement it is at.
StageCalls(m) ==
    CASE m.at = "readAndValidateInputs" -> <<"MPI_Bcast">>
      [] m.at = "broadcastDimensions" -> Repeat("MPI_Bcast", 4)
      [] m.at = "distributeMatrixRows" ->
            IF m.mpiRank = 0
            THEN Repeat("MPI_Send", (m.mpiSize - 1) * (IF m.entryCount > 0 THEN 4 ELSE 1))
            ELSE Repeat("MPI_Recv", IF m.entryCount > 0 THEN 4 ELSE 1)
      [] m.at = "prepareDenseVector" -> <<"MPI_Bcast">>
      [] m.at = "broadcastVector" -> IF m.vectorLength > 0 THEN <<"MPI_Bcast">> ELSE <<>>
      [] m.at = "gatherResults" -> <<"MPI_Gather", "MPI_Gatherv">>
      [] OTHER -> <<>>

\* vector::assign with a negative length throws length_error: on the root
\* before the length is broadcast, on another rank after it.
MustThrow(m) ==
    /\ m.vectorLength < 0
    /\ m.at = (IF m.mpiRank = 0 THEN "prepareDenseVector" ELSE "broadcastVector")

\* The processes: rank and size, argc, the broadcast validation status, the
\* count of the entries sent to a rank, the vector length, whether the
\* output file opens.
MainCalls(size) ==
    {[op |-> "main", mpiRank |-> rank, mpiSize |-> size, argc |-> argc,
      accepted |-> ok, entryCount |-> count, vectorLength |-> len,
      opened |-> opens, at |-> "constructor", constructed |-> FALSE, calls |-> <<>>,
      exitStatus |-> -1] :
        rank \in 0..(size - 1), argc \in 3..4, ok \in BOOLEAN,
        count \in 0..1, len \in {-1, 0, 2}, opens \in BOOLEAN}

\* The constructor: MPI_Init, rank and size; on a usage error MPI_Finalize
\* and exit(1), which runs no destructor.
mainConstruct ==
    /\ probe.op = "main"
    /\ probe.at = "constructor"
    /\ probe' =
           IF parseCommandLineArguments(probe.argc)
           THEN [probe EXCEPT !.calls = <<"MPI_Init", "MPI_Comm_rank", "MPI_Comm_size">>,
                              !.constructed = TRUE,
                              !.at = RunStages[1]]
           ELSE [probe EXCEPT !.calls = <<"MPI_Init", "MPI_Comm_rank", "MPI_Comm_size",
                                          "MPI_Finalize">>,
                              !.exitStatus = 1,
                              !.at = "exit"]
    /\ UNCHANGED programVars

\* The assignment of a path string throws in the constructor: the object is
\* not constructed and its destructor does not run.
constructorThrows ==
    /\ probe.op = "main"
    /\ probe.at = "constructor"
    /\ parseCommandLineArguments(probe.argc)
    /\ probe' = [probe EXCEPT !.calls = <<"MPI_Init", "MPI_Comm_rank", "MPI_Comm_size">>,
                              !.at = "catch"]
    /\ UNCHANGED programVars

\* One statement of run(); run() returns 1 after a failed validation, and on
\* the root when the output file does not open, 0 at its end.
runStage ==
    /\ probe.op = "main"
    /\ InRun(probe)
    /\ ~MustThrow(probe)
    /\ LET k == StageIndex(probe.at)
           returns == IF probe.at = "readAndValidateInputs" /\ ~probe.accepted THEN 1
                      ELSE IF probe.at = "writeVector"
                      THEN (IF probe.mpiRank = 0 /\ ~probe.opened THEN 1 ELSE 0)
                      ELSE -1
       IN  probe' = [probe EXCEPT !.calls = @ \o StageCalls(probe),
                                  !.exitStatus = returns,
                                  !.at = IF returns >= 0 THEN "return" ELSE RunStages[k + 1]]
    /\ UNCHANGED programVars

\* An exception leaves the statement run() is at.
throwException ==
    /\ probe.op = "main"
    /\ InRun(probe)
    /\ probe' = [probe EXCEPT !.at = "unwinding"]
    /\ UNCHANGED programVars

\* ~DistributedSpMVApplication: at the return of main, or while the
\* exception unwinds the try block.
destructor ==
    /\ probe.op = "main"
    /\ probe.at \in {"return", "unwinding"}
    /\ probe.constructed
    /\ probe' = [probe EXCEPT !.calls = Append(@, "MPI_Finalize"),
                              !.at = IF probe.at = "return" THEN "exit" ELSE "catch"]
    /\ UNCHANGED programVars

\* catch (const exception&) and catch (...): MPI_Abort, return 1.
catchHandler ==
    /\ probe.op = "main"
    /\ probe.at = "catch"
    /\ probe' = [probe EXCEPT !.calls = Append(@, "MPI_Abort"),
                              !.exitStatus = 1,
                              !.at = "exit"]
    /\ UNCHANGED programVars

MainInit ==
    /\ Idle
    /\ \E size \in 1..2 : probe \in MainCalls(size)

MainNext ==
    \/ mainConstruct
    \/ constructorThrows
    \/ runStage
    \/ throwException
    \/ destructor
    \/ catchHandler

SpecMain == MainInit /\ [][MainNext]_vars

(***************************************************************************)
(* lab3: calculateSMA_Parallel and calculateWMA_Parallel.  The iterations  *)
(* of the omp parallel for are handed out one at a time (schedule(dynamic),*)
(* chunk 1) to the threads of the team; sum and the inner index are        *)
(* declared inside the loop body and private to the iteration; prices and  *)
(* the output vector are shared.  Indices are 0-based as in the source.    *)
(***************************************************************************)
\* sum / windowSize and sum / weightSum, kept as the exact quotient.
Quotient(sum, divisor) == <<sum, divisor>>

\* weightSum = windowSize * (windowSize + 1) / 2.0.
Divisor(m) ==
    IF m.op = "calculateSMA_Parallel" THEN m.windowSize
    ELSE (m.windowSize * (m.windowSize + 1)) \div 2

\* What step k (0 .. windowSize-1) of the inner loop of iteration i adds to
\* sum: prices[i - windowSize + 1 + k], times the weight k + 1 in the WMA.
Term(m, i, k) ==
    IF m.op = "calculateSMA_Parallel" THEN m.prices[i - m.windowSize + 1 + k + 1]
    ELSE m.prices[i - m.windowSize + 1 + k + 1] * (k + 1)

IdleThread == [busy |-> FALSE, i |-> -1, k |-> 0, sum |-> 0]

\* Calls on n prices: every window size and team size; the output vector
\* starts as n zeros, the loop at i = windowSize - 1.
AverageCalls(n) ==
    {[op |-> op, prices |-> prices, windowSize |-> w, numThreads |-> threads,
      next |-> w - 1, team |-> [t \in 1..threads |-> IdleThread],
      out |-> [e \in 1..n |-> Quotient(0, 1)], writes |-> [e \in 1..n |-> 0],
      status |-> "parallel"] :
        op \in {"calculateSMA_Parallel", "calculateWMA_Parallel"},
        prices \in [1..n -> {1, 3}], w \in 1..MaxWindow, threads \in 1..MaxThreads}

InParallelLoop ==
    /\ probe.op \in {"calculateSMA_Parallel", "calculateWMA_Parallel"}
    /\ probe.status = "parallel"

\* The runtime hands the next iteration to a thread that asks for one.
takeIteration(t) ==
    /\ InParallelLoop
    /\ ~probe.team[t].busy
    /\ probe.next < Len(probe.prices)
    /\ probe' = [probe EXCEPT !.team[t] = [busy |-> TRUE, i |-> probe.next, k |-> 0,
                                            sum |-> 0],
                              !.next = @ + 1]
    /\ UNCHANGED programVars

\* Mutant: sum is declared before the parallel loop and shared by the team.
accumulate_SharedSum(t) ==
    /\ InParallelLoop
    /\ probe.team[t].busy
    /\ probe.team[t].k < probe.windowSize
    /\ LET sum_ == probe.team[t].sum + Term(probe, probe.team[t].i, probe.team[t].k)
       IN  probe' = [probe EXCEPT
                        !.team = [u \in DOMAIN probe.team |->
                                     IF u = t
                                     THEN [probe.team[u] EXCEPT !.sum = sum_, !.k = @ + 1]
                                     ELSE [probe.team[u] EXCEPT !.sum = sum_]]]
    /\ UNCHANGED programVars

\* One step of the inner loop of thread t: a read of prices, added to sum.
accumulate(t) ==
    /\ InParallelLoop
    /\ probe.team[t].busy
    /\ probe.team[t].k < probe.windowSize
    /\ probe' = [probe EXCEPT
                    !.team[t].sum = @ + Term(probe, probe.team[t].i, probe.team[t].k),
                    !.team[t].k = @ + 1]
    /\ UNCHANGED programVars

\* sma[i] = sum / windowSize (wma[i] = sum / weightSum): the write of the
\* iteration, after which the thread asks for another.
storeAverage(t) ==
    /\ InParallelLoop
    /\ probe.team[t].busy
    /\ probe.team[t].k >= probe.windowSize
    /\ probe' = [probe EXCEPT
                    !.out[probe.team[t].i + 1] = Quotient(probe.team[t].sum, Divisor(probe)),
                    !.writes[probe.team[t].i + 1] = @ + 1,
                    !.team[t] = IdleThread]
    /\ UNCHANGED programVars

\* The barrier at the end of the parallel for, and the return.
joinTeam ==
    /\ InParallelLoop
    /\ probe.next >= Len(probe.prices)
    /\ \A t \in DOMAIN probe.team : ~probe.team[t].busy
    /\ probe' = [probe EXCEPT !.status = "returned"]
    /\ UNCHANGED programVars

AveragesInit ==
    /\ Idle
    /\ \E n \in 0..MaxPrices : probe \in AverageCalls(n)

AveragesNext ==
    \/ \E t \in 1..MaxThreads : t \in DOMAIN probe.team /\ takeIteration(t)
    \/ \E t \in 1..MaxThreads : t \in DOMAIN probe.team /\ accumulate(t)
    \/ \E t \in 1..MaxThreads : t \in DOMAIN probe.team /\ storeAverage(t)
    \/ joinTeam

SpecAverages == AveragesInit /\ [][AveragesNext]_vars

(***************************************************************************)
(* Properties.                                                             *)
(***************************************************************************)
Range(seq) == {seq[i] : i \in 1..Len(seq)}

Count(e, seq) == Cardinality({i \in 1..Len(seq) : seq[i] = e})

NonRoot == Ranks \ {0}

\* Rank r is inside distributeMatrixRows.
InScatter(r) ==
    IF r = 0 THEN pc[0] \in {"distributeMatrixRows", "sendCoordinateEntries"}
    ELSE ExpectedTag(r) >= 0

\* Rank r has a point-to-point call posted or about to be posted.
InPointToPoint(r) ==
    IF r = 0 THEN pc[0] = "sendCoordinateEntries" ELSE ExpectedTag(r) >= 0

\* The root has gathered the result (it is at, or past, the writer).
Gathered == pc[0] = "writeVector" \/ (pc[0] = "done" /\ validationStatus[0] = 1)

\* Every matrix entry of the input lies inside the declared dimensions.
EntriesInside ==
    \A e \in Range(input.matrix.entries) :
        /\ 0 <= e.row /\ e.row < input.matrix.rows
        /\ 0 <= e.column /\ e.column < input.matrix.columns

\* x[j]: the sum of the vector file's entries at index j.
VectorSum(j) ==
    LET ve == input.vector.entries
    IN  SumSeq([k \in 1..Len(ve) |->
                   IF (IF input.vector.columns = 1 THEN ve[k].row ELSE ve[k].column) = j
                   THEN ve[k].value ELSE 0])

\* (A*x)[i]: the sum over the matrix entries (i, j, v) of v * x[j].
ProductRow(i) ==
    LET me == input.matrix.entries
    IN  SumSeq([k \in 1..Len(me) |->
                   IF me[k].row = i THEN me[k].value * VectorSum(me[k].column) ELSE 0])

\* C1: on a valid input whose matrix entries lie inside the declared
\* dimensions, the vector the root hands to the writer has one element per
\* matrix row, and element i is the sum over the entries (i, j, v) of v * x[j].
C1_ResultIsProduct ==
    (pc[0] = "writeVector" /\ EntriesInside) =>
        /\ Len(globalResult[0]) = input.matrix.rows
        /\ \A i \in 0..(input.matrix.rows - 1) : globalResult[0][i + 1] = ProductRow(i)

C1_Witness ==
    /\ pc[0] = "writeVector"
    /\ EntriesInside
    /\ mpiSize = 3
    /\ Len(input.matrix.entries) >= 2
    /\ \E i \in 1..Len(globalResult[0]) : globalResult[0][i] # 0

\* Every rank has left distributeMatrixRows.
AllScattered == \A r \in Ranks : scatterResult[r] # <<>>

\* The list distributeMatrixRows returned on rank r.
Scattered(r) == scatterResult[r][1]

\* C2: once every rank has left the scatter, the multiset union of the local
\* entry lists is the root's original entry multiset: each (row, column,
\* value) occurs in the lists together exactly as often as in the original.
C2_ScatterLossless ==
    AllScattered =>
        \A e \in Range(input.matrix.entries)
                 \cup UNION {Range(Scattered(r)) : r \in Ranks} :
            SumSeq([k \in 1..mpiSize |-> Count(e, Scattered(k - 1))])
                = Count(e, input.matrix.entries)

C2_Witness ==
    /\ AllScattered
    /\ mpiSize = 3
    /\ Scattered(1) # <<>>
    /\ Scattered(2) # <<>>
    /\ \E e \in Range(input.matrix.entries) : e.row # e.column

\* The rank that a message in flight is for can still receive it, and the
\* message a rank waits for is still to be sent.
ScatterMatched ==
    \A d \in NonRoot :
        /\ chan[d] # <<>> =>
               \/ pc[d] \in {"constructor", "readAndValidateInputs", "broadcastDimensions"}
               \/ ExpectedTag(d) = Head(chan[d]).tag
        /\ (ExpectedTag(d) >= 0 /\ chan[d] = <<>>) =>
               \/ pc[0] = "distributeMatrixRows"
               \/ /\ pc[0] = "sendCoordinateEntries"
                  /\ \/ destinationRank < d
                     \/ destinationRank = d /\ nextTag = ExpectedTag(d)

\* C3: the scatter never deadlocks under blocking sends that complete only
\* when received: while a rank is inside distributeMatrixRows some step is
\* possible, every message in flight is the one its destination waits for (or
\* will wait for), and every awaited message is still to be sent.
C3_ScatterNeverDeadlocks ==
    /\ (\E r \in Ranks : InScatter(r)) => ENABLED Next
    /\ ScatterMatched

C3_Witness ==
    /\ AllScattered
    /\ mpiSize = 3
    /\ Len(recvLog[1]) = 1
    /\ Len(recvLog[2]) = 4

\* C4: to every non-root rank the root sends count (tag 0), then rows (1),
\* columns (2), values (3); the rank receives in the same order, and its k-th
\* receive, completed or pending, asks for the tag and the length of the k-th
\* message sent to it.
C4_SendReceiveOrder ==
    \A d \in NonRoot :
        /\ \A k \in 1..Len(sendLog[d]) : sendLog[d][k].tag = k - 1
        /\ Len(recvLog[d]) <= Len(sendLog[d])
        /\ \A k \in 1..Len(recvLog[d]) :
               recvLog[d][k] = <<k - 1, Len(sendLog[d][k].data)>>
        /\ (ExpectedTag(d) >= 0 /\ Len(sendLog[d]) > Len(recvLog[d])) =>
               LET m == sendLog[d][Len(recvLog[d]) + 1]
               IN  <<m.tag, Len(m.data)>> = <<ExpectedTag(d), ExpectedLength(d)>>

C4_Witness ==
    /\ mpiSize = 3
    /\ \E d \in NonRoot : Len(recvLog[d]) = 4 /\ recvLog[d][4] = <<3, 2>>

\* C5: a zero count is followed by no data message: the root sends nothing
\* more to that rank, and the rank posts no further receive and leaves the
\* scatter with an empty list.
C5_ZeroCountNoData ==
    \A d \in NonRoot :
        /\ (sendLog[d] # <<>> /\ sendLog[d][1].data = <<0>>) => Len(sendLog[d]) = 1
        /\ (recvLog[d] # <<>> /\ entryCount[d] = 0) =>
               /\ Len(recvLog[d]) = 1
               /\ ExpectedTag(d) = -1
               /\ scatterResult[d] = << <<>> >>

C5_Witness ==
    /\ mpiSize = 3
    /\ \A r \in Ranks : pc[r] = "done"
    /\ Len(sendLog[1]) = 1
    /\ sendLog[1][1].data = <<0>>
    /\ Len(sendLog[2]) = 4

\* C6: calculateRowDistribution returns P+1 boundaries, the first 0, the last
\* totalRows, boundary k equal to k*(totalRows / P) + min(k, totalRows % P)
\* for k < P, in non-decreasing order.
C6_Boundaries ==
    (probe.op = "calculateRowDistribution" /\ probe.returned) =>
        LET b == probe.rowStartIndices
            n == probe.totalNumberOfRows
            P == probe.mpiSize
        IN  /\ Len(b) = P + 1
            /\ b[1] = 0
            /\ b[P + 1] = n
            /\ \A k \in 0..(P - 1) : b[k + 1] = k * (n \div P) + Min(k, n % P)
            /\ \A k \in 1..P : b[k] <= b[k + 1]

C6_Witness ==
    /\ probe.op = "calculateRowDistribution"
    /\ probe.returned
    /\ probe.totalNumberOfRows > 0
    /\ probe.totalNumberOfRows < probe.mpiSize

\* C7: the first (totalRows % P) workers own (totalRows / P) + 1 rows, the
\* others (totalRows / P), so two workers differ by at most one row; 10 rows
\* on 3 workers give [0,4,7,10] and 2 rows on 5 workers give [0,1,2,2,2,2].
C7_BalancedRows ==
    (probe.op = "calculateRowDistribution" /\ probe.returned) =>
        LET b == probe.rowStartIndices
            n == probe.totalNumberOfRows
            P == probe.mpiSize
        IN  /\ \A k \in 0..(P - 1) :
                   b[k + 2] - b[k + 1] = (n \div P) + (IF k < n % P THEN 1 ELSE 0)
            /\ \A j, k \in 0..(P - 1) :
                   (b[j + 2] - b[j + 1]) - (b[k + 2] - b[k + 1]) \in {-1, 0, 1}
            /\ (n = 10 /\ P = 3) => b = <<0, 4, 7, 10>>
            /\ (n = 2 /\ P = 5) => b = <<0, 1, 2, 2, 2, 2>>

C7_Witness ==
    /\ probe.op = "calculateRowDistribution"
    /\ probe.returned
    /\ probe.totalNumberOfRows = 10
    /\ probe.mpiSize = 3

\* C8: the gathered buffer is the concatenation of the local results in rank
\* order; worker k's displacement is the sum of the lengths of workers
\* 0..k-1, which is boundaries[k]; the buffer has one element per matrix row.
C8_GatherInRankOrder ==
    Gathered =>
        /\ globalResult[0] = Concat([k \in 1..mpiSize |-> localResult[k - 1]])
        /\ \A k \in 1..mpiSize :
               /\ displacements(allSizesOf(0, allSizes))[k]
                      = SumSeq([j \in 1..(k - 1) |-> Len(localResult[j - 1])])
               /\ displacements(allSizesOf(0, allSizes))[k] = rowDistribution[0][k]
        /\ Len(globalResult[0]) = matrixRows[0]

C8_Witness ==
    /\ Gathered
    /\ mpiSize = 3
    /\ \E r \in Ranks : Len(localResult[r]) = 0
    /\ \E i \in 1..Len(globalResult[0]) : globalResult[0][i] # 0
    /\ Len(globalResult[0]) >= 2

\* What a run with a single worker writes for the input: rank 0 owns every
\* row, keeps every entry, and gathers its own result.
singleWorkerOutput ==
    LET dist == calculateRowDistribution(input.matrix.rows, 1)
        kept == entriesPerProcess(input.matrix.entries, dist, 1)[1]
        csr == convertCOOtoCSRLocal(input.matrix.columns,
                                    CHOOSE sorted \in SortOutcomes(kept) : TRUE,
                                    dist[1], dist[2])
        dense == buildDenseVector(input.vector.rows, input.vector.columns,
                                  input.vector.entries)
        local == multiply(csr, dense)
        gathered == Gatherv(<<local>>, <<Len(local)>>, displacements(<<Len(local)>>),
                            Len(local))
    IN  writeVector(gathered, zeroTolerance)

C10_DecisionBeforePointToPoint ==
    /\ \A r \in Ranks :
           /\ bcastSeen[r] >= 1 => validationStatus[r] = validationStatus[0]
           /\ (bcastSeen[r] >= 1 /\ validationStatus[r] = 0) =>
                  pc[r] = "done" /\ exitStatus[r] = 1
           /\ InPointToPoint(r) => bcastSeen[r] >= 1 /\ validationStatus[r] = 1
           /\ (sendLog[r] # <<>> \/ recvLog[r] # <<>> \/ chan[r] # <<>>) =>
                  bcastSeen[0] >= 1 /\ validationStatus[0] = 1
    /\ (bcastSeen[0] >= 1 /\ validationStatus[0] = 0) =>
           \A r \in Ranks :
               /\ ~InPointToPoint(r)
               /\ sendLog[r] = <<>> /\ recvLog[r] = <<>> /\ chan[r] = <<>>

C10_Witness ==
    /\ mpiSize = 3
    /\ \A r \in Ranks : pc[r] = "done" /\ exitStatus[r] = 1 /\ bcastSeen[r] = 1
    /\ input.matrix.readable
    /\ input.vector.readable

\* The vector file is a vector: one row or one column.
IsVector == input.vector.columns = 1 \/ input.vector.rows = 1

\* The length the vector file declares.
DeclaredLength ==
    IF input.vector.columns = 1 THEN input.vector.rows ELSE input.vector.columns

\* The root cannot read one of the files, or the vector file is not a vector
\* of as many elements as the matrix has columns.
InputRejected ==
    \/ ~input.matrix.readable
    \/ ~input.vector.readable
    \/ ~IsVector
    \/ DeclaredLength # input.matrix.columns

NoPointToPoint == \A r \in Ranks : sendLog[r] = <<>> /\ recvLog[r] = <<>> /\ chan[r] = <<>>

\* C11: when the root cannot read the matrix or the vector file, or the vector
\* length differs from the matrix column count, every rank returns 1 from
\* run(); the only communication is the broadcast of the status: no dimension
\* broadcast, no scatter, no multiply, no gather, and the output file is never
\* opened or written.
C11_RejectedInputsAbort ==
    (input.argc >= 4 /\ InputRejected) =>
        /\ \A r \in Ranks :
               /\ pc[r] \in {"constructor", "readAndValidateInputs", "done"}
               /\ exitStatus[r] = IF pc[r] = "done" THEN 1 ELSE -1
               /\ collectiveLog[r] \in {<<>>, <<Collective("MPI_Bcast", 1)>>}
               /\ localResult[r] = <<>> /\ ~segmentSent[r] /\ allSizes[r] = -1
        /\ bcastLog \in {<<>>, <<0>>}
        /\ NoPointToPoint
        /\ outputFile = <<>>
        /\ "output" \notin filesOpened
        /\ (\E r \in Ranks : pc[r] # "done") => ENABLED Next

C11_Witness ==
    /\ mpiSize = 3
    /\ \A r \in Ranks : pc[r] = "done" /\ exitStatus[r] = 1
    /\ input.matrix.readable /\ input.vector.readable /\ IsVector
    /\ DeclaredLength = 3 /\ input.matrix.columns = 2
    /\ filesOpened = {"matrix", "vector"}

\* The collective calls of a whole run on the input, in order: the status
\* broadcast; on a pass the four dimensions, the vector length, the vector
\* data when the length is positive, the gather of the sizes and the gather
\* of the results (whose count is each rank's own).
ExpectedCollectives ==
    IF input.argc < 4 THEN <<>>
    ELSE IF InputRejected THEN <<Collective("MPI_Bcast", 1)>>
    ELSE [k \in 1..6 |-> Collective("MPI_Bcast", 1)]
         \o (IF DeclaredLength > 0 THEN <<Collective("MPI_Bcast", DeclaredLength)>>
             ELSE <<>>)
         \o <<Collective("MPI_Gather", 1), <<"MPI_Gatherv">> >>

\* The calls rank r has issued, without the count of its MPI_Gatherv.
CollectivesOf(r) ==
    [k \in 1..Len(collectiveLog[r]) |->
        IF collectiveLog[r][k][1] = "MPI_Gatherv" THEN <<"MPI_Gatherv">>
        ELSE collectiveLog[r][k]]

IsPrefix(s, t) == Len(s) <= Len(t) /\ s = SubSeq(t, 1, Len(s))

C17_UsageExit ==
    input.argc < 4 =>
        /\ \A r \in Ranks :
               /\ pc[r] \in {"constructor", "exited"}
               /\ exitStatus[r] = IF pc[r] = "exited" THEN 1 ELSE -1
               /\ collectiveLog[r] = <<>>
               /\ errorStream[r] = IF r = 0 /\ pc[0] = "exited" THEN <<"Usage">> ELSE <<>>
        /\ bcastLog = <<>>
        /\ NoPointToPoint
        /\ filesOpened = {}
        /\ outputFile = <<>>
        /\ (\E r \in Ranks : pc[r] # "exited") => ENABLED Next

C17_Witness ==
    /\ mpiSize = 3
    /\ input.argc = 3
    /\ \A r \in Ranks : pc[r] = "exited" /\ exitStatus[r] = 1
    /\ errorStream[0] = <<"Usage">>

\* A converter has returned a matrix.
Converted ==
    /\ probe.op \in {"convertCOOtoCSR", "convertCOOtoCSRLocal"}
    /\ probe.status = "returned"

\* The first row of the converter's window (0 for the global variant).
WindowStart == IF probe.op = "convertCOOtoCSRLocal" THEN probe.localRowStart ELSE 0

\* The input entries the conversion is to store: all of them for the global
\* variant, those of the window for the windowed one.
InWindow(e) ==
    probe.op = "convertCOOtoCSRLocal" =>
        probe.localRowStart <= e.row /\ e.row < probe.localRowEnd

\* The positions of columnIndices and values that rowPointers gives to row r.
StoredIn(m, r) == (m.rowPointers[r + 1] + 1)..m.rowPointers[r + 2]

\* C13: the matrix a converter returns has numberOfRows + 1 row pointers, in
\* non-decreasing order, the first 0 and the last the number of stored
\* entries, which is the length of columnIndices and of values and the number
\* of distinct (row, column) pairs of the input.
C13_RowPointers ==
    Converted =>
        LET m == probe.csrMatrix
            n == m.numberOfRows
        IN  /\ Len(m.rowPointers) = n + 1
            /\ m.rowPointers[1] = 0
            /\ \A k \in 1..n : m.rowPointers[k] <= m.rowPointers[k + 1]
            /\ m.rowPointers[n + 1] = Len(m.columnIndices)
            /\ Len(m.values) = Len(m.columnIndices)
            /\ Len(m.columnIndices) =
                   Cardinality({<<e.row, e.column>> :
                                   e \in {e \in Range(probe.coordinateEntries) : InWindow(e)}})

\* Cell (r, c) of the densified matrix: the sum of the stored values of row r
\* with column index c.
Densify(m, r, c) ==
    SumSeq([k \in 1..Len(m.values) |->
               IF k \in StoredIn(m, r) /\ m.columnIndices[k] = c THEN m.values[k] ELSE 0])

\* The sum of the values of the entries of the list at (r, c).
CellSum(entries, r, c) ==
    SumSeq([k \in 1..Len(entries) |->
               IF entries[k].row = r /\ entries[k].column = c THEN entries[k].value ELSE 0])

\* C14: convertCOOtoCSR returns, and densifying what it returns gives in
\* every cell (r, c) the sum of the values of the input entries at (r, c), 0
\* where there is none.
C14_DensifiedIsCellSum ==
    (probe.op = "convertCOOtoCSR" /\ probe.status # "called") =>
        /\ probe.status = "returned"
        /\ \A r \in 0..(probe.numberOfRows - 1), c \in 0..(probe.numberOfColumns - 1) :
               Densify(probe.csrMatrix, r, c) = CellSum(probe.coordinateEntries, r, c)

\* C15: in the matrix a converter returns, the stored entries of row r all
\* come from input entries of row r, their column indices are pairwise
\* distinct, and the input entries sharing a (row, column) are one stored
\* entry.
C15_RowsDistinctColumns ==
    Converted =>
        LET m == probe.csrMatrix
        IN  \A r \in 0..(m.numberOfRows - 1) :
                /\ \A k \in StoredIn(m, r) :
                       \E e \in Range(probe.coordinateEntries) :
                           e.row = r + WindowStart /\ e.column = m.columnIndices[k]
                /\ \A j, k \in StoredIn(m, r) :
                       j # k => m.columnIndices[j] # m.columnIndices[k]
                /\ \A e \in Range(probe.coordinateEntries) :
                       e.row = r + WindowStart =>
                           Cardinality({k \in StoredIn(m, r) :
                                           m.columnIndices[k] = e.column}) = 1

\* C16: multiply returns one element per row of the local matrix; element r
\* is the sum of value * denseVector[column] over the stored entries of row r
\* whose column index is in [0, Len(denseVector)); the other entries are
\* skipped, and the vector is read at no index outside that range.
C16_MultiplySkipsOutOfRange ==
    (probe.op = "multiply" /\ probe.status = "returned") =>
        LET m == probe.localMatrix
            x == probe.globalVector
        IN  /\ Len(probe.result) = m.numberOfRows
            /\ \A r \in 0..(m.numberOfRows - 1) :
                   probe.result[r + 1] =
                       SumSeq([k \in 1..Len(m.values) |->
                                  IF /\ k \in StoredIn(m, r)
                                     /\ 0 <= m.columnIndices[k]
                                     /\ m.columnIndices[k] < Len(x)
                                  THEN m.values[k] * x[m.columnIndices[k] + 1]
                                  ELSE 0])
            /\ probe.reads \subseteq 0..(Len(x) - 1)

C16_Witness ==
    /\ probe.op = "multiply"
    /\ probe.status = "returned"
    /\ Len(probe.globalVector) = 1
    /\ probe.localMatrix.numberOfRows = 2
    /\ probe.localMatrix.rowPointers = <<0, 1, 2>>
    /\ probe.localMatrix.columnIndices = <<0, 2>>
    /\ probe.result[1] # 0
    /\ probe.result[2] = 0

\* C18: the written file has exactly one data line for each index i with
\* |value[i]| > tolerance and none for the others; the lines are in ascending
\* index order, each is (i + 1, 1, value[i]); the dimension line gives the
\* length of the vector, 1 and the number of data lines.
C18_OutputLines ==
    (probe.op = "writeVector" /\ probe.written # <<>>) =>
        LET v == probe.vectorData
            file == probe.written[1]
            kept == {i \in 1..Len(v) : Abs(v[i]) > probe.zeroTolerance}
        IN  /\ \A i \in 1..Len(v) :
                   Cardinality({k \in 1..Len(file.lines) : file.lines[k][1] = i})
                       = (IF i \in kept THEN 1 ELSE 0)
            /\ \A k \in 1..Len(file.lines) :
                   /\ file.lines[k][1] \in kept
                   /\ file.lines[k] = <<file.lines[k][1], 1, v[file.lines[k][1]]>>
            /\ \A j, k \in 1..Len(file.lines) :
                   j < k => file.lines[j][1] < file.lines[k][1]
            /\ file.size = Len(v)
            /\ file.count = Len(file.lines)

C18_Witness ==
    /\ probe.op = "writeVector"
    /\ probe.written # <<>>
    /\ probe.zeroTolerance = 1
    /\ probe.vectorData = <<2, -1, -2>>
    /\ probe.written[1].lines = <<<<1, 1, 2>>, <<3, 1, -2>>>>

\* The header declares the symmetry (it has the banner and all five tokens).
Declares(headerLine, symmetries) ==
    /\ Len(headerLine) >= 5
    /\ headerLine[1] = "%%MatrixMarket"
    /\ headerLine[5] \in symmetries

\* The header declares the pattern field.
DeclaresPattern(headerLine) ==
    Len(headerLine) >= 5 /\ headerLine[1] = "%%MatrixMarket" /\ headerLine[4] = "pattern"

\* The data lines the reader accepts: the first numberOfNonZeros lines that
\* are not comments and carry a row, a column (both >= 1) and, unless the
\* field is pattern, a value.
AcceptedLines ==
    LET ok == SelectSeq(probe.lines,
                  LAMBDA l : /\ ~l.comment
                             /\ Len(l.tokens) >= (IF DeclaresPattern(probe.headerLine)
                                                  THEN 2 ELSE 3)
                             /\ l.tokens[1] >= 1
                             /\ l.tokens[2] >= 1)
    IN  SubSeq(ok, 1, Min(probe.numberOfNonZeros, Len(ok)))

\* The zero-based entry of an accepted line, and its transpose.
EntryOf(l) ==
    CoordinateEntry(l.tokens[1] - 1, l.tokens[2] - 1,
                    IF DeclaresPattern(probe.headerLine) THEN 1 ELSE l.tokens[3])

TransposeOf(l) ==
    CoordinateEntry(l.tokens[2] - 1, l.tokens[1] - 1,
                    IF DeclaresPattern(probe.headerLine) THEN 1 ELSE l.tokens[3])

\* C19: under a symmetric or hermitian header the reader emits, per accepted
\* line (r, c, v) in order, the entry and, when r # c, its transpose right
\* after it; a diagonal line gives one entry; the single line (1,2,5) gives
\* (1,2,5) and (2,1,5) (zero-based (0,1,5), (1,0,5)).  Under any other header
\* one entry is emitted per accepted line.
C19_SymmetricExpansion ==
    (probe.op = "readCoordinateEntries" /\ probe.status = "returned") =>
        LET sym == Declares(probe.headerLine, {"symmetric", "hermitian"})
            acc == AcceptedLines
        IN  /\ probe.coordinateEntries =
                   Concat([k \in 1..Len(acc) |->
                              IF sym /\ acc[k].tokens[1] # acc[k].tokens[2]
                              THEN <<EntryOf(acc[k]), TransposeOf(acc[k])>>
                              ELSE <<EntryOf(acc[k])>>])
            /\ ~sym => Len(probe.coordinateEntries) = Len(acc)
            /\ (/\ sym /\ ~DeclaresPattern(probe.headerLine)
                /\ probe.lines = <<Line(FALSE, <<1, 2, 5>>)>>
                /\ probe.numberOfNonZeros = 1) =>
                   probe.coordinateEntries =
                       <<CoordinateEntry(0, 1, 5), CoordinateEntry(1, 0, 5)>>

C19_Witness ==
    /\ probe.op = "readCoordinateEntries"
    /\ probe.status = "returned"
    /\ probe.headerLine = <<"%%MatrixMarket", "matrix", "coordinate", "real", "hermitian">>
    /\ probe.numberOfNonZeros = 2
    /\ probe.lines = <<Line(FALSE, <<1, 2, 5>>), Line(FALSE, <<2, 2, 3>>)>>
    /\ probe.coordinateEntries =
           <<CoordinateEntry(0, 1, 5), CoordinateEntry(1, 0, 5), CoordinateEntry(1, 1, 3)>>

\* C20: findOwnerProcess returns a rank in 0..mpiSize-1 for every row index,
\* also for one at or past the total row count and for one below every
\* boundary, so the bucket it selects exists.
C20_OwnerInRange ==
    (probe.op = "findOwnerProcess" /\ probe.status = "returned") =>
        /\ 0 <= probe.ownerRank
        /\ probe.ownerRank <= probe.mpiSize - 1
        /\ probe.ownerRank + 1 \in 1..probe.bucketCount

C20_Witness ==
    /\ probe.op = "findOwnerProcess"
    /\ probe.status = "returned"
    /\ probe.totalNumberOfRows = 2
    /\ probe.mpiSize = 5
    /\ probe.rowIndex = 3
    /\ probe.ownerRank = 4

\* The entries of the list whose row lies in the window of the call, each
\* with its row renumbered as row - localRowStart.
WindowEntries ==
    LET kept == SelectSeq(probe.coordinateEntries,
                          LAMBDA e : probe.localRowStart <= e.row /\ e.row < probe.localRowEnd)
    IN  [k \in 1..Len(kept) |->
            CoordinateEntry(kept[k].row - probe.localRowStart, kept[k].column, kept[k].value)]

\* C21: the windowed converter returns what the global converter returns for
\* the entries of the window with rows renumbered from the window start (for
\* some order the sort may leave them in): the entries outside the window give
\* no stored entry and no row count, and every increment of rowPointers is
\* inside it (each stored entry is counted at one of the window's rows).
C21_WindowedIsGlobalOnWindow ==
    (probe.op = "convertCOOtoCSRLocal" /\ probe.status = "returned") =>
        LET m == probe.csrMatrix
            n == probe.localRowEnd - probe.localRowStart
        IN  /\ ~writesPastRowPointers(n, WindowEntries)
            /\ \E sorted \in SortOutcomes(WindowEntries) :
                   m = convertCOOtoCSR(n, probe.numberOfColumns, sorted, 0)
            /\ Len(m.rowPointers) = n + 1
            /\ m.rowPointers[1] = 0
            /\ m.rowPointers[n + 1] = Len(m.columnIndices)
            /\ Len(m.columnIndices) =
                   Cardinality({<<e.row, e.column>> : e \in Range(WindowEntries)})

C21_Witness ==
    /\ probe.op = "convertCOOtoCSRLocal"
    /\ probe.status = "returned"
    /\ probe.localRowStart = 1
    /\ probe.localRowEnd = 2
    /\ {e.row : e \in Range(probe.coordinateEntries)} = {0, 1, 2}
    /\ probe.csrMatrix.rowPointers = <<0, 1>>

\* The number of count messages (tag 0) among the messages sent to a rank,
\* and of count receives among the receives it completed.
CountSends(d) == Cardinality({k \in 1..Len(sendLog[d]) : sendLog[d][k].tag = 0})

CountReceives(d) == Cardinality({k \in 1..Len(recvLog[d]) : recvLog[d][k][1] = 0})

\* C22: point-to-point messages are sent by the root only, inside its send
\* loop, and received by non-root ranks only, inside receiveCoordinateEntries:
\* nothing is ever sent to the root or received by it; a rank is sent at most
\* one count message and completes at most one count receive, exactly one
\* once the root (the rank) has left distributeMatrixRows; with one worker no
\* message exists.
C22_PointToPointRootOnly ==
    /\ [](/\ sendLog[0] = <<>> /\ recvLog[0] = <<>> /\ chan[0] = <<>>
          /\ mpiSize = 1 => NoPointToPoint
          /\ \A d \in NonRoot :
                 /\ CountSends(d) <= 1
                 /\ CountReceives(d) <= 1
                 /\ scatterResult[0] # <<>> => CountSends(d) = 1
                 /\ scatterResult[d] # <<>> => CountReceives(d) = 1
                 /\ Len(recvLog[d]) <= Len(sendLog[d]))
    /\ [][/\ (sendLog' # sendLog \/ \E d \in Ranks : Len(chan'[d]) > Len(chan[d])) =>
                 /\ pc[0] = "sendCoordinateEntries"
                 /\ pc' = pc
          /\ recvLog' # recvLog =>
                 \E r \in NonRoot :
                     /\ ExpectedTag(r) >= 0
                     /\ \A q \in Ranks \ {r} : pc'[q] = pc[q] /\ recvLog'[q] = recvLog[q]]_vars

C22_Witness ==
    /\ mpiSize = 3
    /\ \A r \in Ranks : pc[r] = "done" /\ exitStatus[r] = 0
    /\ Len(sendLog[1]) = 4 /\ Len(recvLog[1]) = 4
    /\ Len(sendLog[2]) = 4 /\ Len(recvLog[2]) = 4
    /\ CountSends(1) = 1 /\ CountSends(2) = 1

\* C23: two conversions of the same entry multiset visit the entries in the
\* same order, so the entries sharing a (row, column) are accumulated in the
\* same order in both.
C23_DeterministicTieBreak ==
    (probe.op = "convertCOOtoCSRLocal twice" /\ probe.status = "returned") =>
        probe.visitedFirst = probe.visitedSecond

\* The part of C23 that the comparator does give: the two conversions visit
\* the same (row, column) keys in the same order, and for the same list in the
\* same arrangement the same entries.
SortedKeysDetermined ==
    (probe.op = "convertCOOtoCSRLocal twice" /\ probe.status = "returned") =>
        /\ Keys(probe.visitedFirst) = Keys(probe.visitedSecond)
        /\ probe.first = probe.second => probe.visitedFirst = probe.visitedSecond

\* Rank r has returned from prepareDenseVector.
HasDenseVector(r) ==
    \/ pc[r] \in {"multiply", "gatherResults", "writeVector"}
    \/ pc[r] = "done" /\ validationStatus[r] = 1 /\ bcastSeen[r] > 1

\* C24: the dense vector a rank holds after prepareDenseVector has the length
\* the vector file declares (its rows when it has one column, its columns
\* otherwise); element k is the sum of the values of the file's entries whose
\* index (row when one column, column otherwise) is k, the entries with an
\* index outside [0, length) adding nothing; every rank holds the root's
\* vector.
C24_DenseVector ==
    [](\A r \in Ranks :
        HasDenseVector(r) =>
            /\ Len(denseVector[r]) = DeclaredLength
            /\ \A k \in 0..(DeclaredLength - 1) : denseVector[r][k + 1] = VectorSum(k)
            /\ HasDenseVector(0) /\ denseVector[r] = denseVector[0]
            /\ SumSeq(denseVector[r]) =
                   SumSeq([j \in 1..Len(input.vector.entries) |->
                       LET e == input.vector.entries[j]
                           index == IF input.vector.columns = 1 THEN e.row ELSE e.column
                       IN  IF 0 <= index /\ index < DeclaredLength THEN e.value ELSE 0]))

C24_Witness ==
    /\ mpiSize = 3
    /\ \A r \in Ranks : pc[r] = "done" /\ HasDenseVector(r)
    /\ input.vector.rows = 1 /\ input.vector.columns = 2
    /\ Len(input.vector.entries) = 3
    /\ denseVector[2] = <<1, 3>>

MultiplyFrameInRun ==
    [][\A r \in Ranks :
           (pc[r] = "multiply" /\ pc'[r] # pc[r]) =>
               /\ localMatrix' = localMatrix
               /\ denseVector' = denseVector
               /\ localResult' = [localResult EXCEPT ![r] = multiply(localMatrix[r], denseVector[r])]
               /\ UNCHANGED <<scatterVars, collectiveVars, ioVars>>]_vars

\* Rank r is past step 4 of run(): its conversion has ended.
PastConversion(r) ==
    \/ pc[r] \in {"prepareDenseVector", "multiply", "gatherResults", "writeVector"}
    \/ pc[r] = "done" /\ validationStatus[r] = 1 /\ bcastSeen[r] > 1

\* C26: while the root is inside distributeMatrixRows its matrixEntries is
\* the list the reader produced, and no step of the scatter changes it; from
\* the return of distributeMatrixRows on the root to the end of the run it is
\* empty; the localMatrixEntries of a rank is empty from the end of its
\* conversion onward.
C26_BuffersReleased ==
    /\ [](/\ InScatter(0) => matrixEntries[0] = input.matrix.entries
          /\ scatterResult[0] # <<>> => matrixEntries[0] = <<>>
          /\ \A r \in Ranks : PastConversion(r) => localMatrixEntries[r] = <<>>
          /\ PastConversion(0) => scatterResult[0] # <<>>)
    /\ [][InScatter(0) /\ InScatter(0)' => matrixEntries' = matrixEntries]_vars

C26_Witness ==
    /\ mpiSize = 3
    /\ \A r \in Ranks : pc[r] = "done" /\ exitStatus[r] = 0
    /\ Len(input.matrix.entries) >= 3
    /\ matrixEntries[0] = <<>>
    /\ \A r \in Ranks : Scattered(r) # <<>> /\ localMatrixEntries[r] = <<>>

\* The row count a converter call asks for: numberOfRows, or the size of the
\* window.
RequestedRows ==
    IF probe.op = "convertCOOtoCSRLocal" THEN probe.localRowEnd - probe.localRowStart
    ELSE probe.numberOfRows

\* C27: on an empty entry list both converters return a matrix of the
\* requested row count with no stored entry and with rowPointers of that
\* count + 1 zeros; for a window of zero rows rowPointers is the single
\* element 0.
C27_EmptyListAllZero ==
    (/\ probe.op \in {"convertCOOtoCSR", "convertCOOtoCSRLocal"}
     /\ probe.status # "called"
     /\ probe.coordinateEntries = <<>>) =>
        /\ probe.status = "returned"
        /\ probe.csrMatrix.numberOfRows = RequestedRows
        /\ probe.csrMatrix.numberOfColumns = probe.numberOfColumns
        /\ Len(probe.csrMatrix.rowPointers) = RequestedRows + 1
        /\ \A k \in 1..(RequestedRows + 1) : probe.csrMatrix.rowPointers[k] = 0
        /\ probe.csrMatrix.columnIndices = <<>>
        /\ probe.csrMatrix.values = <<>>
        /\ RequestedRows = 0 => probe.csrMatrix.rowPointers = <<0>>

C27_Witness ==
    /\ probe.op = "convertCOOtoCSRLocal"
    /\ probe.status = "returned"
    /\ probe.coordinateEntries = <<>>
    /\ probe.numberOfRows = 2
    /\ probe.localRowStart = 2 /\ probe.localRowEnd = 2
    /\ probe.csrMatrix.rowPointers = <<0>>

\* The number of numbers a data line must carry under the header.
RequiredTokens == IF DeclaresPattern(probe.headerLine) THEN 2 ELSE 3

\* The file has been read and had a first line and a dimension line.
FileRead ==
    /\ probe.op = "readMatrixMarketFile"
    /\ probe.status = "returned"
    /\ probe.file = "text"
    /\ probe.dimensions # <<>>

\* The entries of a sequence of accepted lines, with the transposes a
\* symmetric header adds.
EntriesOfLines(acc) ==
    Concat([k \in 1..Len(acc) |->
               IF Declares(probe.headerLine, {"symmetric", "hermitian"})
                  /\ acc[k].tokens[1] # acc[k].tokens[2]
               THEN <<EntryOf(acc[k]), TransposeOf(acc[k])>>
               ELSE <<EntryOf(acc[k])>>])

OwnStart(r) == rowDistribution[r][r + 1]
OwnEnd(r) == rowDistribution[r][r + 2]

\* localMatrix[r] stores cell (localRow, column) with value v.
Stores(r, localRow, column, v) ==
    \E q \in (localMatrix[r].rowPointers[localRow + 1] + 1)
                 ..localMatrix[r].rowPointers[localRow + 2] :
        /\ localMatrix[r].columnIndices[q] = column
        /\ localMatrix[r].values[q] = v

\* C29: every rank computes the boundaries the root computed; an entry of the
\* file whose row lies in 0..totalRows-1 is handed by the scatter to the rank
\* whose own window [boundaries[k], boundaries[k+1]) contains that row, a rank
\* with an empty window receiving none of them; and after the conversion of
\* that rank its local matrix stores the cell of each such entry, none being
\* dropped by the window test.
C29_OwnerWindowContainsRow ==
    [](\A r \in Ranks :
        /\ rowDistribution[r] # <<>> =>
               /\ rowDistribution[r] = rowDistribution[0]
               /\ Len(rowDistribution[r]) = mpiSize + 1
        /\ scatterResult[r] # <<>> =>
               /\ \A k \in 1..Len(Scattered(r)) :
                      LET e == Scattered(r)[k]
                      IN  (0 <= e.row /\ e.row < matrixRows[r]) =>
                              /\ OwnStart(r) <= e.row
                              /\ e.row < OwnEnd(r)
               /\ \A k \in 1..Len(input.matrix.entries) :
                      LET e == input.matrix.entries[k]
                      IN  (OwnStart(r) <= e.row /\ e.row < OwnEnd(r)) =>
                              Count(e, Scattered(r)) = Count(e, input.matrix.entries)
        /\ PastConversion(r) =>
               /\ localMatrix[r].numberOfRows = OwnEnd(r) - OwnStart(r)
               /\ \A k \in 1..Len(Scattered(r)) :
                      LET e == Scattered(r)[k]
                      IN  (0 <= e.row /\ e.row < matrixRows[r]) =>
                              Stores(r, e.row - OwnStart(r), e.column,
                                     CellSum(Scattered(r), e.row, e.column)))

\* Three ranks share two rows: the last rank's window is empty and it holds
\* no entry, the two others hold the entry of their row in their matrix.
C29_Witness ==
    /\ mpiSize = 3
    /\ input.matrix.rows = 2
    /\ \A r \in Ranks : PastConversion(r)
    /\ OwnStart(2) = OwnEnd(2)
    /\ Scattered(2) = <<>>
    /\ \A r \in 0..1 :
           /\ Scattered(r) # <<>>
           /\ \A k \in 1..Len(Scattered(r)) : Scattered(r)[k].row = r
           /\ Len(localMatrix[r].values) >= 1

\* The classification alone, on more rows and workers: the owner of a row
\* below the total is the rank whose window contains it.
OwnerWindowContainsRow ==
    (/\ probe.op = "findOwnerProcess"
     /\ probe.status = "returned"
     /\ 0 <= probe.rowIndex
     /\ probe.rowIndex < probe.totalNumberOfRows) =>
        /\ probe.rowDistribution[probe.ownerRank + 1] <= probe.rowIndex
        /\ probe.rowIndex < probe.rowDistribution[probe.ownerRank + 2]

\* The command line has its arguments and the root accepts both files.
ValidInput == input.argc >= 4 /\ ~InputRejected

\* Rank r has returned from run() (MPI_Finalize follows in the destructor)
\* after passing the scatter, the vector broadcast and the gather.
Finished(r) ==
    /\ pc[r] = "done"
    /\ scatterResult[r] # <<>>
    /\ HasDenseVector(r)
    /\ segmentSent[r]

Beyond(e) == e.row >= input.matrix.rows

\* The accepted input holds an entry whose row is past the declared count.
HasBeyond == ValidInput /\ \E k \in 1..Len(input.matrix.entries) : Beyond(input.matrix.entries[k])

\* The number of entries of list l whose row is past the declared count.
BeyondIn(l) == Cardinality({k \in 1..Len(l) : Beyond(l[k])})

\* The cells of the entries of list l whose row is below the declared count.
CellsInside(l) ==
    {<<l[k].row, l[k].column>> : k \in {j \in 1..Len(l) : ~Beyond(l[j])}}

\* C31: an entry of the accepted matrix whose row is at or past the declared
\* row count is handed by the scatter to the last rank and to no other; the
\* conversion of the last rank stores only the cells of its entries below the
\* declared count; the gathered result has one element per declared row,
\* element i being the product over the entries of row i alone, so the sum
\* of the result is the sum over the entries below the declared count; no
\* message is written to the error stream before the output is written and
\* no rank other than the root returns nonzero.
C31_RowsBeyondDropped ==
    [](HasBeyond =>
          /\ \A r \in Ranks :
                 /\ scatterResult[r] # <<>> =>
                        BeyondIn(Scattered(r)) =
                            IF r = mpiSize - 1 THEN BeyondIn(input.matrix.entries) ELSE 0
                 /\ Range(errorStream[r])
                        \subseteq {"Successfully wrote output", "Failed to write output file"}
                 /\ r # 0 => exitStatus[r] \in {-1, 0}
          /\ PastConversion(mpiSize - 1) =>
                 /\ Len(localMatrix[mpiSize - 1].rowPointers)
                        = OwnEnd(mpiSize - 1) - OwnStart(mpiSize - 1) + 1
                 /\ Len(localMatrix[mpiSize - 1].values)
                        = Cardinality(CellsInside(Scattered(mpiSize - 1)))
                 /\ localMatrix[mpiSize - 1].rowPointers[
                        Len(localMatrix[mpiSize - 1].rowPointers)]
                        = Len(localMatrix[mpiSize - 1].values)
          /\ Gathered =>
                 /\ Len(globalResult[0]) = input.matrix.rows
                 /\ \A i \in 0..(input.matrix.rows - 1) :
                        globalResult[0][i + 1] = ProductRow(i)
                 /\ SumSeq(globalResult[0]) =
                        SumSeq([k \in 1..Len(input.matrix.entries) |->
                                   LET e == input.matrix.entries[k]
                                   IN  IF Beyond(e) THEN 0
                                       ELSE e.value * VectorSum(e.column)]))

\* A two-row matrix on three ranks with an entry in row 0 and one in row 2:
\* the last rank, whose window is empty, held the entry of row 2 and stored
\* nothing; the run ended with status 0 everywhere.
C31_Witness ==
    /\ HasBeyond
    /\ mpiSize = 3
    /\ input.matrix.rows = 2
    /\ \A r \in Ranks : pc[r] = "done" /\ exitStatus[r] = 0
    /\ \E k \in 1..Len(input.matrix.entries) : input.matrix.entries[k].row = 0
    /\ BeyondIn(Scattered(2)) = 1
    /\ localMatrix[2].values = <<>>
    /\ globalResult[0][1] # 0

\* The reader does not compare a row index with the declared row count: the
\* data line "3 1 4" of a file that declares two rows gives the entry of row 2.
ReaderKeepsRowsBeyond ==
    (/\ FileRead
     /\ probe.numberOfNonZeros >= Len(probe.lines)
     /\ \E k \in 1..Len(probe.lines) : probe.lines[k] = Line(FALSE, <<3, 1, 4>>)) =>
        /\ probe.success
        /\ probe.numberOfRows = 2
        /\ \E k \in 1..Len(probe.coordinateEntries) :
               /\ probe.coordinateEntries[k].row = 2
               /\ probe.coordinateEntries[k].row >= probe.numberOfRows

\* The number of calls of the given name the process has made.
CallsOf(name) == Cardinality({k \in 1..Len(probe.calls) : probe.calls[k] = name})

\* C32: when the process has left main by whatever path, it has called
\* MPI_Finalize exactly once and MPI_Finalize is the last call it made to
\* the communication runtime.
C32_FinalizeOnceAndLast ==
    (probe.op = "main" /\ probe.at = "exit") =>
        /\ CallsOf("MPI_Finalize") = 1
        /\ probe.calls[Len(probe.calls)] = "MPI_Finalize"

\* On the paths without an exception (usage error, failed validation,
\* failed write, success) MPI_Finalize is called once and last, and
\* MPI_Abort is not called.
FinalizeOnceWithoutException ==
    (probe.op = "main" /\ probe.at = "exit" /\ CallsOf("MPI_Abort") = 0) =>
        /\ CallsOf("MPI_Finalize") = 1
        /\ probe.calls[Len(probe.calls)] = "MPI_Finalize"

\* Every one of those paths is taken.
ExitPathsWithoutException ==
    /\ probe.op = "main" /\ probe.at = "exit" /\ CallsOf("MPI_Abort") = 0
    /\ probe.mpiRank = 0 /\ probe.opened /\ probe.exitStatus = 0
    /\ CallsOf("MPI_Gatherv") = 1

\* The bucket the root's classification fills for rank d.
BucketOf(d) == entriesPerProcess(input.matrix.entries, rowDistribution[0], mpiSize)[d + 1]

\* C33: once every rank has left the scatter no message is in flight; each
\* rank other than the root has received every message sent to it: one, the
\* count, when its bucket is empty, four otherwise; the count announces
\* the size of the bucket, and the rows, columns and values are each sent
\* and received with that many elements.  The root has exchanged nothing
\* with itself.
C33_ScatterComplete ==
    [](AllScattered =>
          /\ \A r \in Ranks : chan[r] = <<>>
          /\ sendLog[0] = <<>> /\ recvLog[0] = <<>>
          /\ \A d \in NonRoot :
                 /\ Len(sendLog[d]) = IF BucketOf(d) = <<>> THEN 1 ELSE 4
                 /\ Len(recvLog[d]) = Len(sendLog[d])
                 /\ sendLog[d][1] = Message(0, <<Len(BucketOf(d))>>)
                 /\ recvLog[d][1] = <<0, 1>>
                 /\ \A k \in 2..Len(sendLog[d]) :
                        /\ sendLog[d][k].tag = k - 1
                        /\ Len(sendLog[d][k].data) = sendLog[d][1].data[1]
                        /\ recvLog[d][k] = <<k - 1, sendLog[d][1].data[1]>>)

\* Three ranks have left the scatter: rank 1 was sent the count 0 alone,
\* rank 2 the count 2 and three arrays of two elements.
C33_Witness ==
    /\ AllScattered
    /\ mpiSize = 3
    /\ \A r \in Ranks : chan[r] = <<>>
    /\ Len(recvLog[1]) = 1
    /\ sendLog[1][1].data = <<0>>
    /\ Len(recvLog[2]) = 4
    /\ sendLog[2][1].data = <<2>>
    /\ recvLog[2][4] = <<3, 2>>

\* C34: a rank that is about to call multiply has passed validation and
\* holds a dense vector of exactly as many elements as the matrix has
\* columns: the length the validation compared with the column count (the
\* rows of a one-column vector file, the columns otherwise) is the length
\* prepareDenseVector builds.
C34_VectorLengthIsColumnCount ==
    [](\A r \in Ranks :
          pc[r] = "multiply" =>
              /\ validationStatus[r] = 1
              /\ matrixColumns[r] = input.matrix.columns
              /\ Len(denseVector[r]) = matrixColumns[r]
              /\ Len(denseVector[r]) =
                     (IF vectorColumns[r] = 1 THEN vectorRows[r] ELSE vectorColumns[r])
              /\ localMatrix[r].numberOfColumns = Len(denseVector[r]))

\* A row vector of two elements for a matrix of two columns, on three ranks:
\* the last rank is about to multiply with a vector of two elements.
C34_Witness ==
    /\ mpiSize = 3
    /\ pc[2] = "multiply"
    /\ input.vector.rows = 1
    /\ input.vector.columns = 2
    /\ input.matrix.columns = 2
    /\ Len(denseVector[2]) = 2

\* The root has reported that the output file did not open.
WriteFailed == \E k \in 1..Len(errorStream[0]) : errorStream[0][k] = "Failed to write output file"

\* C35: the output file is opened and written by a step of the root alone,
\* taken after the gather has completed (every rank has contributed its
\* segment and the ranks other than the root have returned); when the file
\* does not open nothing is written, the root returns 1 from run() and
\* every other rank has returned 0.
C35_RootWritesAfterGather ==
    /\ [][(outputFile' # outputFile \/ filesOpened' \ filesOpened = {"output"}) =>
              /\ pc[0] = "writeVector" /\ pc'[0] = "done"
              /\ \A r \in Ranks : segmentSent[r]
              /\ \A r \in Ranks \ {0} : pc[r] = "done" /\ pc'[r] = "done"]_vars
    /\ []("output" \in filesOpened =>
              /\ pc[0] = "done"
              /\ \A r \in Ranks : segmentSent[r])
    /\ [](WriteFailed =>
              /\ outputFile = <<>>
              /\ exitStatus[0] = 1
              /\ \A r \in Ranks \ {0} : pc[r] = "done" /\ exitStatus[r] = 0)
    /\ []((pc[0] = "done" /\ exitStatus[0] = 0) => outputFile # <<>> /\ ~WriteFailed)

\* The run on three ranks has ended with a failed write: status 1 on the
\* root, 0 on the two others.
C35_Witness ==
    /\ mpiSize = 3
    /\ WriteFailed
    /\ \A r \in Ranks : pc[r] = "done"
    /\ exitStatus = (0 :> 1 @@ 1 :> 0 @@ 2 :> 0)
    /\ outputFile = <<>>
    /\ "output" \in filesOpened

\* The sum the loop body computes for iteration i when run on its own.
RECURSIVE WindowSum(_, _, _)
WindowSum(m, i, k) == IF k = 0 THEN 0 ELSE WindowSum(m, i, k - 1) + Term(m, i, k - 1)

\* The vector the loop gives when one thread runs the iterations in order.
SequentialAverage(m) ==
    [e \in 1..Len(m.prices) |->
        IF e - 1 < m.windowSize - 1 THEN Quotient(0, 1)
        ELSE Quotient(WindowSum(m, e - 1, m.windowSize), Divisor(m))]

\* C36: in the parallel loops of calculateSMA_Parallel and
\* calculateWMA_Parallel no two threads work on the same iteration, element
\* i of the output is written once, by the iteration i, and the elements
\* 0..windowSize-2 are never written and stay 0; prices is not written; so
\* for every team size and every order in which the iterations are handed
\* out and interleaved, the vector returned is the one a single thread
\* computes in order.
C36_ParallelLoopsRaceFree ==
    /\ [](probe.op \in {"calculateSMA_Parallel", "calculateWMA_Parallel"} =>
              /\ \A t, u \in DOMAIN probe.team :
                     (t # u /\ probe.team[t].busy /\ probe.team[u].busy) =>
                         probe.team[t].i # probe.team[u].i
              /\ \A e \in 1..Len(probe.prices) :
                     /\ probe.writes[e] <= 1
                     /\ e - 1 < probe.windowSize - 1 =>
                            probe.writes[e] = 0 /\ probe.out[e] = Quotient(0, 1)
                     /\ probe.writes[e] = 1 => probe.out[e] = SequentialAverage(probe)[e]
              /\ probe.status = "returned" =>
                     /\ probe.out = SequentialAverage(probe)
                     /\ \A e \in 1..Len(probe.prices) :
                            probe.writes[e] = IF e - 1 < probe.windowSize - 1 THEN 0 ELSE 1)
    /\ [][probe.op \in {"calculateSMA_Parallel", "calculateWMA_Parallel"} =>
              probe'.prices = probe.prices]_vars

\* The weighted average of three prices with window 2 on two threads has
\* returned: element 0 is 0, elements 1 and 2 were written once each.
C36_Witness ==
    /\ probe.op = "calculateWMA_Parallel"
    /\ probe.status = "returned"
    /\ probe.numThreads = 2
    /\ probe.windowSize = 2
    /\ probe.prices = <<1, 3, 1>>
    /\ probe.out = <<Quotient(0, 1), Quotient(7, 3), Quotient(5, 3)>>
    /\ probe.writes = <<0, 1, 1>>

=============================================================================
